---- MODULE Spec2Model ----
(***************************************************************************)
(* Model of the life-care-plan cost engine: frequency normalisation        *)
(* (app/utils/frequency_parser.py), cost-string parsing                    *)
(* (app/utils/currency.py), cost calculation / aggregation                 *)
(* (app/services/cost_calculator.py), workbook parsing                     *)
(* (app/services/workbook_parser.py) and the generation endpoint           *)
(* (app/routes/api.py).                                                    *)
(*                                                                         *)
(* Python values are modelled as follows.                                  *)
(*   - str   : a TLA+ string, read character by character with SubSeq.     *)
(*   - float : an exact rational <<n, d>> in lowest terms with d > 0.      *)
(*             Binary rounding error of IEEE doubles is not modelled.      *)
(*   - None / str / number cell values: records tagged by "kind".          *)
(*   - a call: Return(v) when it returns v, Raise(e) when exception e      *)
(*             propagates out of it.                                       *)
(***************************************************************************)
EXTENDS Integers, Sequences, FiniteSets, TLC

VARIABLES
    pc,            \* position of the call under study
    freq_str,      \* argument of parse_frequency
    freq_ret,      \* outcome of parse_frequency
    cost_str,      \* argument of parse_cost_string
    cost_ret,      \* outcome of parse_cost_string
    code,          \* arguments of lookup_cost
    code_type,
    geo_mult,
    lookup_ret,    \* outcome of lookup_cost
    pfr_lookup,    \* price tables: code -> price
    apc_lookup,
    item,          \* arguments of calculate_item_costs
    patient_info,
    costs,         \* outcome of calculate_item_costs
    workbook_data, \* argument of calculate_all_costs
    life_expectancy,   \* locals of calculate_all_costs
    item_index,        \* position of the for loop in items (1-based)
    calculated_items,
    category_totals,   \* insertion-ordered dict: sequence of [key, value]
    cost_data,     \* outcome of calculate_all_costs
    request,       \* the upload received by generate_lcp
    wb,            \* the workbook opened by the parser
    row,           \* parse_master_items: the sheet row of the while loop
    items,         \* parse_master_items: the list of selected items
    parse_ret,     \* outcome of the parser function under study
    response,      \* the HTTP response of generate_lcp
    calls,         \* generate_lcp: the services called so far, in order
    workbook_file, \* generate_lcp: the uploaded file exists at workbook_path
    case           \* generate_lcp: the record returned by save_case

freqVars == <<freq_str, freq_ret>>

costVars == <<cost_str, cost_ret>>

lookupVars == <<code, code_type, geo_mult, lookup_ret>>

tableVars == <<pfr_lookup, apc_lookup>>

itemVars == <<item, patient_info, costs>>

allVars == <<workbook_data, life_expectancy, item_index, calculated_items,
             category_totals, cost_data>>

parserVars == <<request, wb, row, items, parse_ret, response, calls, workbook_file, case>>

vars == <<pc, freqVars, costVars, lookupVars, tableVars, itemVars, allVars, parserVars>>

(***************************************************************************)
(* Bounds of the explored inputs.                                          *)
(***************************************************************************)
MaxNum == 3

MaxCostLen == 3

MaxCodeLen == 3

MaxItems == 3

(***************************************************************************)
(* Python values and call outcomes.                                        *)
(***************************************************************************)
None == [kind |-> "none"]

Str(s) == [kind |-> "str", s |-> s]

Num(q) == [kind |-> "num", q |-> q]

Bool(b) == [kind |-> "bool", b |-> b]

\* a cell holding a date
Datetime == [kind |-> "datetime"]

Return(v) == [raised |-> "none", value |-> v]

Raise(e) == [raised |-> e]

Pending == [raised |-> "pending"]

Returned(r) == r.raised = "none"

Raised(r) == r.raised \notin {"none", "pending"}

\* a dict key that is not present
Absent == [kind |-> "absent"]

\* the empty dict
EmptyDict == <<>>

\* dict.get(key, default)
Get(d, key, default) == IF d # EmptyDict /\ key \in DOMAIN d THEN d[key] ELSE default

\* the dict holding the present entries of a record of optional values
Present(d) == [k \in {j \in DOMAIN d : d[j] # Absent} |-> d[k]]

\* truth value of a cell value: None, '', 0 and False are false
Truthy(v) ==
    CASE v.kind = "none" -> FALSE
      [] v.kind = "str" -> v.s # ""
      [] v.kind = "num" -> v.q[1] # 0
      [] v.kind = "bool" -> v.b
      [] v.kind = "datetime" -> TRUE

\* str(v) of a text cell
StrOf(v) == v.s

(***************************************************************************)
(* Exact rational arithmetic standing for float arithmetic.                *)
(***************************************************************************)
Abs(n) == IF n < 0 THEN -n ELSE n

RECURSIVE GCD(_, _)
GCD(a, b) == IF b = 0 THEN a ELSE GCD(b, a % b)

Rat(n, d) ==
    LET g == GCD(Abs(n), Abs(d))
        s == IF d < 0 THEN -1 ELSE 1
    IN  <<(s * n) \div g, (s * d) \div g>>

Whole(n) == <<n, 1>>

Zero == <<0, 1>>

One == <<1, 1>>

RAdd(a, b) == Rat(a[1] * b[2] + b[1] * a[2], a[2] * b[2])

RMul(a, b) == Rat(a[1] * b[1], a[2] * b[2])

RInv(a) == Rat(a[2], a[1])

IsZero(a) == a[1] = 0

\* round(x, 2): nearest multiple of 1/100, ties to the even multiple
Round2(a) ==
    LET n == 100 * a[1]
        lo == n \div a[2]
        rem == n - lo * a[2]
        cents == IF 2 * rem < a[2] THEN lo
                 ELSE IF 2 * rem > a[2] THEN lo + 1
                 ELSE IF lo % 2 = 0 THEN lo ELSE lo + 1
    IN  Rat(cents, 100)

(***************************************************************************)
(* Characters and strings.                                                 *)
(***************************************************************************)
At(s, i) == SubSeq(s, i, i)

Digits == <<"0", "1", "2", "3", "4", "5", "6", "7", "8", "9">>

IsDigit(c) == \E k \in 1..10 : Digits[k] = c

DigitVal(c) == (CHOOSE k \in 1..10 : Digits[k] = c) - 1

IsSpace(c) == c \in {" ", "\t", "\n"}

LowerAlpha == "abcdefghijklmnopqrstuvwxyz"

UpperAlpha == "ABCDEFGHIJKLMNOPQRSTUVWXYZ"

LowerChar(c) ==
    IF \E k \in 1..26 : At(UpperAlpha, k) = c
    THEN At(LowerAlpha, CHOOSE k \in 1..26 : At(UpperAlpha, k) = c)
    ELSE c

UpperChar(c) ==
    IF \E k \in 1..26 : At(LowerAlpha, k) = c
    THEN At(UpperAlpha, CHOOSE k \in 1..26 : At(LowerAlpha, k) = c)
    ELSE c

RECURSIVE Lower(_)
Lower(s) == IF s = "" THEN "" ELSE LowerChar(At(s, 1)) \o Lower(SubSeq(s, 2, Len(s)))

RECURSIVE Upper(_)
Upper(s) == IF s = "" THEN "" ELSE UpperChar(At(s, 1)) \o Upper(SubSeq(s, 2, Len(s)))

RECURSIVE LStrip(_)
LStrip(s) == IF s # "" /\ IsSpace(At(s, 1)) THEN LStrip(SubSeq(s, 2, Len(s))) ELSE s

RECURSIVE RStrip(_)
RStrip(s) == IF s # "" /\ IsSpace(At(s, Len(s))) THEN RStrip(SubSeq(s, 1, Len(s) - 1)) ELSE s

Strip(s) == RStrip(LStrip(s))

\* lit occurs in s starting at position p
HasAt(s, p, lit) == p + Len(lit) - 1 <= Len(s) /\ SubSeq(s, p, p + Len(lit) - 1) = lit

\* the "in" operator on strings
Contains(s, lit) == \E p \in 1..(Len(s) + 1) : HasAt(s, p, lit)

\* int() of a non-empty string of decimal digits
RECURSIVE ToInt(_)
ToInt(ds) ==
    IF ds = "" THEN 0
    ELSE 10 * ToInt(SubSeq(ds, 1, Len(ds) - 1)) + DigitVal(At(ds, Len(ds)))

\* position reached by a greedy \s* started at p
RECURSIVE SkipWs(_, _)
SkipWs(s, p) == IF p <= Len(s) /\ IsSpace(At(s, p)) THEN SkipWs(s, p + 1) ELSE p

\* position reached by a greedy \d* started at p
RECURSIVE SkipDigits(_, _)
SkipDigits(s, p) == IF p <= Len(s) /\ IsDigit(At(s, p)) THEN SkipDigits(s, p + 1) ELSE p

\* re.search tries the positions from the left: the leftmost of a non-empty
\* set of positions
Leftmost(ps) == CHOOSE p \in ps : \A q \in ps : p <= q

(***************************************************************************)
(* frequency_parser.py                                                     *)
(***************************************************************************)
FREQUENCY_MULTIPLIERS == <<
    [pattern |-> "yearly",           mult |-> Whole(1)],
    [pattern |-> "1x/year",          mult |-> Whole(1)],
    [pattern |-> "1 time per year",  mult |-> Whole(1)],
    [pattern |-> "2x/year",          mult |-> Whole(2)],
    [pattern |-> "2 times per year", mult |-> Whole(2)],
    [pattern |-> "3 times per year", mult |-> Whole(3)],
    [pattern |-> "4 times per year", mult |-> Whole(4)],
    [pattern |-> "12 times a year",  mult |-> Whole(12)],
    [pattern |-> "24 times a year",  mult |-> Whole(24)],
    [pattern |-> "monthly",          mult |-> Whole(12)],
    [pattern |-> "every 2 years",    mult |-> Rat(1, 2)],
    [pattern |-> "every 3 years",    mult |-> Rat(333333, 1000000)],
    [pattern |-> "every 5 years",    mult |-> Rat(1, 5)],
    [pattern |-> "every 8-10 years", mult |-> Rat(111111, 1000000)],
    [pattern |-> "one time",         mult |-> Zero],
    [pattern |-> "one-time",         mult |-> Zero] >>

\* (\d+)\s*visits?\s*(?:every\s*)?(\d+)?\s*years?  tried at position p
VisitsMatchAt(s, p) ==
    LET d1 == SkipDigits(s, p)
        a == SkipWs(s, d1)
        b == a + 5
        c == IF HasAt(s, b, "s") THEN b + 1 ELSE b
        d == SkipWs(s, c)
        e == IF HasAt(s, d, "every") THEN SkipWs(s, d + 5) ELSE d
        f == SkipDigits(s, e)
        g == SkipWs(s, f)
    IN  IF d1 > p /\ HasAt(s, a, "visit") /\ HasAt(s, g, "year")
        THEN [ok |-> TRUE, g1 |-> SubSeq(s, p, d1 - 1), g2 |-> SubSeq(s, e, f - 1)]
        ELSE [ok |-> FALSE]

\* re.search with the pattern of VisitsMatchAt
VisitsSearch(s) ==
    LET ps == {p \in 1..Len(s) : VisitsMatchAt(s, p).ok}
    IN  IF ps = {} THEN [ok |-> FALSE] ELSE VisitsMatchAt(s, Leftmost(ps))

\* (\d+)\s*(?:times?|x)\s*(?:per|a|/)\s*year  tried at position p
TimesMatchAt(s, p) ==
    LET d1 == SkipDigits(s, p)
        a == SkipWs(s, d1)
        unit == HasAt(s, a, "time") \/ HasAt(s, a, "x")
        b == IF HasAt(s, a, "time")
             THEN (IF HasAt(s, a + 4, "s") THEN a + 5 ELSE a + 4)
             ELSE a + 1
        c == SkipWs(s, b)
        per == HasAt(s, c, "per") \/ HasAt(s, c, "a") \/ HasAt(s, c, "/")
        d == IF HasAt(s, c, "per") THEN c + 3 ELSE c + 1
        e == SkipWs(s, d)
    IN  IF d1 > p /\ unit /\ per /\ HasAt(s, e, "year")
        THEN [ok |-> TRUE, g1 |-> SubSeq(s, p, d1 - 1)]
        ELSE [ok |-> FALSE]

\* re.search with the pattern of TimesMatchAt
TimesSearch(s) ==
    LET ps == {p \in 1..Len(s) : TimesMatchAt(s, p).ok}
    IN  IF ps = {} THEN [ok |-> FALSE] ELSE TimesMatchAt(s, Leftmost(ps))

\* every\s*(\d+)(?:-(\d+))?\s*years?  tried at position p
EveryMatchAt(s, p) ==
    LET a == SkipWs(s, p + 5)
        b == SkipDigits(s, a)
        range == HasAt(s, b, "-") /\ SkipDigits(s, b + 1) > b + 1
        c == IF range THEN SkipDigits(s, b + 1) ELSE b
        d == SkipWs(s, c)
    IN  IF HasAt(s, p, "every") /\ b > a /\ HasAt(s, d, "year")
        THEN [ok |-> TRUE, g1 |-> SubSeq(s, a, b - 1),
              g2 |-> IF range THEN SubSeq(s, b + 1, c - 1) ELSE ""]
        ELSE [ok |-> FALSE]

\* re.search with the pattern of EveryMatchAt
EverySearch(s) ==
    LET ps == {p \in 1..Len(s) : EveryMatchAt(s, p).ok}
    IN  IF ps = {} THEN [ok |-> FALSE] ELSE EveryMatchAt(s, Leftmost(ps))

\* the for loop over FREQUENCY_MULTIPLIERS.items(), from entry k on
RECURSIVE StandardPatterns(_, _)
StandardPatterns(freq_lower, k) ==
    IF k > Len(FREQUENCY_MULTIPLIERS) THEN Return([is_annual |-> TRUE, multiplier |-> One])
    ELSE IF Contains(freq_lower, FREQUENCY_MULTIPLIERS[k].pattern)
         THEN IF IsZero(FREQUENCY_MULTIPLIERS[k].mult)
              THEN Return([is_annual |-> FALSE, multiplier |-> One])
              ELSE Return([is_annual |-> TRUE, multiplier |-> FREQUENCY_MULTIPLIERS[k].mult])
         ELSE StandardPatterns(freq_lower, k + 1)

\* a / b on floats: ZeroDivisionError when b is zero
Divide(a, b) ==
    IF IsZero(b) THEN Raise("ZeroDivisionError")
    ELSE Return([is_annual |-> TRUE, multiplier |-> RMul(a, RInv(b))])

\* parse_frequency testing for "one time" after the three patterns
parse_frequency_one_time_late(v) ==
    IF v.kind = "none" \/ v.s = "" THEN Return([is_annual |-> FALSE, multiplier |-> Zero])
    ELSE
    LET freq_lower == Strip(Lower(v.s))
        visits_match == VisitsSearch(freq_lower)
        times_match == TimesSearch(freq_lower)
        every_match == EverySearch(freq_lower)
    IN  IF visits_match.ok
        THEN LET visits == ToInt(visits_match.g1)
                 years == IF visits_match.g2 # "" THEN ToInt(visits_match.g2) ELSE 1
             IN  Divide(Whole(visits), Whole(years))
        ELSE IF times_match.ok
        THEN Return([is_annual |-> TRUE, multiplier |-> Whole(ToInt(times_match.g1))])
        ELSE IF every_match.ok
        THEN IF every_match.g2 # ""
             THEN LET low == ToInt(every_match.g1)
                      high == ToInt(every_match.g2)
                      midpoint == Rat(low + high, 2)
                  IN  Divide(One, midpoint)
             ELSE Divide(One, Whole(ToInt(every_match.g1)))
        ELSE IF Contains(freq_lower, "one time") \/ Contains(freq_lower, "one-time")
        THEN Return([is_annual |-> FALSE, multiplier |-> One])
        ELSE StandardPatterns(freq_lower, 1)

parse_frequency(v) ==
    IF v.kind = "none" \/ v.s = "" THEN Return([is_annual |-> FALSE, multiplier |-> Zero])
    ELSE
    LET freq_lower == Strip(Lower(v.s))
        visits_match == VisitsSearch(freq_lower)
        times_match == TimesSearch(freq_lower)
        every_match == EverySearch(freq_lower)
    IN  IF Contains(freq_lower, "one time") \/ Contains(freq_lower, "one-time")
        THEN Return([is_annual |-> FALSE, multiplier |-> One])
        ELSE IF visits_match.ok
        THEN LET visits == ToInt(visits_match.g1)
                 years == IF visits_match.g2 # "" THEN ToInt(visits_match.g2) ELSE 1
             IN  Divide(Whole(visits), Whole(years))
        ELSE IF times_match.ok
        THEN Return([is_annual |-> TRUE, multiplier |-> Whole(ToInt(times_match.g1))])
        ELSE IF every_match.ok
        THEN IF every_match.g2 # ""
             THEN LET low == ToInt(every_match.g1)
                      high == ToInt(every_match.g2)
                      midpoint == Rat(low + high, 2)
                  IN  Divide(One, midpoint)
             ELSE Divide(One, Whole(ToInt(every_match.g1)))
        ELSE StandardPatterns(freq_lower, 1)

(***************************************************************************)
(* currency.py                                                             *)
(***************************************************************************)
\* str.replace(c, '') for a one-character c
RECURSIVE Remove(_, _)
Remove(s, c) ==
    IF s = "" THEN ""
    ELSE (IF At(s, 1) = c THEN "" ELSE At(s, 1)) \o Remove(SubSeq(s, 2, Len(s)), c)

\* str.split(c) for a one-character c: the pieces between the occurrences of c
RECURSIVE Split(_, _)
Split(s, c) ==
    IF \E p \in 1..Len(s) : At(s, p) = c
    THEN LET p == CHOOSE q \in 1..Len(s) :
                      At(s, q) = c /\ \A r \in 1..(q - 1) : At(s, r) # c
         IN  <<SubSeq(s, 1, p - 1)>> \o Split(SubSeq(s, p + 1, Len(s)), c)
    ELSE <<s>>

\* str.isdigit(): non-empty and decimal digits only
IsDigitStr(s) == s # "" /\ \A p \in 1..Len(s) : IsDigit(At(s, p))

\* 10 ^ k
RECURSIVE Pow10(_)
Pow10(k) == IF k = 0 THEN 1 ELSE 10 * Pow10(k - 1)

\* float(s) for s over digits, sign, point, blanks and other characters:
\* [sign] digits [. digits] or [sign] . digits between optional blanks is a
\* number, anything else raises ValueError.  Exponents, underscores, "inf"
\* and "nan" are outside the explored alphabet.
ToFloat(s) ==
    LET t == Strip(s)
        signed == t # "" /\ At(t, 1) \in {"-", "+"}
        body == IF signed THEN SubSeq(t, 2, Len(t)) ELSE t
        ipart == SubSeq(body, 1, SkipDigits(body, 1) - 1)
        rest == SubSeq(body, Len(ipart) + 1, Len(body))
        fpart == IF rest # "" /\ At(rest, 1) = "." THEN SubSeq(rest, 2, Len(rest)) ELSE ""
        wellformed == /\ rest = "" \/ (At(rest, 1) = "." /\ (fpart = "" \/ IsDigitStr(fpart)))
                      /\ ipart # "" \/ fpart # ""
        magnitude == Rat(ToInt(ipart \o fpart), Pow10(Len(fpart)))
    IN  IF wellformed
        THEN Return(IF signed /\ At(t, 1) = "-" THEN RMul(Whole(-1), magnitude) ELSE magnitude)
        ELSE Raise("ValueError")

\* the for loop over parts, from part k on, with the running total
RECURSIVE SumParts(_, _, _)
SumParts(parts, k, total) ==
    IF k > Len(parts) THEN Return(total)
    ELSE LET cleaned == Remove(Remove(Strip(parts[k]), ","), "$")
         IN  IF cleaned # "" /\ IsDigitStr(Remove(Remove(cleaned, "."), "-"))
             THEN IF Returned(ToFloat(cleaned))
                  THEN SumParts(parts, k + 1, RAdd(total, ToFloat(cleaned).value))
                  ELSE ToFloat(cleaned)
             ELSE SumParts(parts, k + 1, total)

\* parse_cost_string without the except clause around float(cleaned)
parse_cost_string_uncaught(v) ==
    IF v.kind = "none" THEN Return(Zero)
    ELSE IF v.kind = "num" THEN Return(v.q)
    ELSE LET stripped == Strip(v.s)
             cleaned == Strip(Remove(Remove(stripped, ","), "$"))
         IN  IF stripped = "" THEN Return(Zero)
             ELSE IF Contains(stripped, ";") THEN SumParts(Split(stripped, ";"), 1, Zero)
             ELSE ToFloat(cleaned)

parse_cost_string(v) ==
    IF v.kind = "none" THEN Return(Zero)
    ELSE IF v.kind = "num" THEN Return(v.q)
    ELSE LET stripped == Strip(v.s)
             cleaned == Strip(Remove(Remove(stripped, ","), "$"))
         IN  IF stripped = "" THEN Return(Zero)
             ELSE IF Contains(stripped, ";") THEN SumParts(Split(stripped, ";"), 1, Zero)
             ELSE IF Returned(ToFloat(cleaned)) THEN ToFloat(cleaned)
             ELSE Return(Zero)

(***************************************************************************)
(* cost_calculator.py                                                      *)
(***************************************************************************)
\* the for loop over codes (the split segments), from segment k on; segments
\* that are empty after strip() were filtered out of the list
RECURSIVE SumCodes(_, _, _, _, _, _, _)
SumCodes(parts, k, facility, pfr, apc, geo, total_cost) ==
    IF k > Len(parts) THEN total_cost
    ELSE LET cpt == Strip(parts[k])
             pfr_price == Get(pfr, cpt, Zero)
             apc_price == Get(apc, cpt, Zero)
         IN  IF cpt = "" THEN SumCodes(parts, k + 1, facility, pfr, apc, geo, total_cost)
             ELSE IF facility
             THEN SumCodes(parts, k + 1, facility, pfr, apc, geo,
                           RAdd(total_cost, RAdd(pfr_price, RMul(apc_price, geo))))
             ELSE SumCodes(parts, k + 1, facility, pfr, apc, geo, RAdd(total_cost, pfr_price))

\* lookup_cost with the facility charge left unscaled
lookup_cost_unscaled(c, ct, pfr, apc, geo) ==
    IF ~Truthy(c) THEN Zero
    ELSE LET code_type_str == IF Truthy(ct) THEN Strip(Upper(StrOf(ct))) ELSE ""
         IN  SumCodes(Split(Strip(StrOf(c)), ";"), 1,
                      Contains(code_type_str, "APC") \/ Contains(code_type_str, "FACILITY"),
                      pfr, apc, One, Zero)

lookup_cost(c, ct, pfr, apc, geo) ==
    IF ~Truthy(c) THEN Zero
    ELSE LET code_str == Strip(StrOf(c))
             code_type_str == IF Truthy(ct) THEN Strip(Upper(StrOf(ct))) ELSE ""
         IN  SumCodes(Split(code_str, ";"), 1,
                      Contains(code_type_str, "APC") \/ Contains(code_type_str, "FACILITY"),
                      pfr, apc, geo, Zero)

\* float(v) of a truthy cell value
FloatOf(v) == IF v.kind = "num" THEN Return(v.q) ELSE ToFloat(v.s)

\* float(d.get(key, default) or default)
FloatOr(d, key, default) ==
    LET v == Get(d, key, Num(default))
    IN  IF Truthy(v) THEN FloatOf(v) ELSE Return(default)

\* CostDict without the fall-back to the base cost for a zero multiplier
CostDict_always_scaled(base_cost, freq) ==
    IF freq.is_annual
    THEN [unit_cost |-> base_cost,
          annual_cost |-> Round2(RMul(base_cost, freq.multiplier)),
          one_time_cost |-> Zero]
    ELSE [unit_cost |-> base_cost,
          annual_cost |-> Zero,
          one_time_cost |-> Round2(RMul(base_cost, freq.multiplier))]

\* CostDict charging a recurring item its unit cost once as well
CostDict_both_charged(base_cost, freq) ==
    IF freq.is_annual
    THEN [unit_cost |-> base_cost,
          annual_cost |-> Round2(RMul(base_cost, freq.multiplier)),
          one_time_cost |-> base_cost]
    ELSE [unit_cost |-> base_cost,
          annual_cost |-> Zero,
          one_time_cost |-> IF ~IsZero(freq.multiplier)
                            THEN Round2(RMul(base_cost, freq.multiplier))
                            ELSE base_cost]

\* CostDict without round(): the products as they are
CostDict_unrounded(base_cost, freq) ==
    IF freq.is_annual
    THEN [unit_cost |-> base_cost,
          annual_cost |-> RMul(base_cost, freq.multiplier),
          one_time_cost |-> Zero]
    ELSE [unit_cost |-> base_cost,
          annual_cost |-> Zero,
          one_time_cost |-> IF ~IsZero(freq.multiplier)
                            THEN RMul(base_cost, freq.multiplier)
                            ELSE base_cost]

\* the result dict of calculate_item_costs for a base cost and a parsed frequency
CostDict(base_cost, freq) ==
    IF freq.is_annual
    THEN [unit_cost |-> base_cost,
          annual_cost |-> Round2(RMul(base_cost, freq.multiplier)),
          one_time_cost |-> Zero]
    ELSE [unit_cost |-> base_cost,
          annual_cost |-> Zero,
          one_time_cost |-> IF ~IsZero(freq.multiplier)
                            THEN Round2(RMul(base_cost, freq.multiplier))
                            ELSE base_cost]

\* calculate_item_costs looking prices up without the patient's multiplier
calculate_item_costs_geo_dropped(it, patient, pfr, apc) ==
    LET geo == FloatOr(patient, "geographic_multiplier", One)
        base_cost == IF Truthy(Get(it, "cost", None))
                     THEN parse_cost_string(it["cost"])
                     ELSE Return(lookup_cost(Get(it, "code", Str("")),
                                             Get(it, "code_type", Str("")),
                                             pfr, apc, One))
        freq == parse_frequency(Get(it, "frequency", Str("")))
    IN  IF Raised(geo) THEN geo
        ELSE IF Raised(base_cost) THEN base_cost
        ELSE IF Raised(freq) THEN freq
        ELSE Return(CostDict(base_cost.value, freq.value))

calculate_item_costs(it, patient, pfr, apc) ==
    LET geo == FloatOr(patient, "geographic_multiplier", One)
        base_cost == IF Truthy(Get(it, "cost", None))
                     THEN parse_cost_string(it["cost"])
                     ELSE Return(lookup_cost(Get(it, "code", Str("")),
                                             Get(it, "code_type", Str("")),
                                             pfr, apc, geo.value))
        freq == parse_frequency(Get(it, "frequency", Str("")))
    IN  IF Raised(geo) THEN geo
        ELSE IF Raised(base_cost) THEN base_cost
        ELSE IF Raised(freq) THEN freq
        ELSE Return(CostDict(base_cost.value, freq.value))

\* MergeCosts building the calculated item from the cost fields alone
MergeCosts_costs_only(it, c) ==
    [k \in {"unit_cost", "annual_cost", "one_time_cost"} |-> c[k]]

\* {**item, 'unit_cost': ..., 'annual_cost': ..., 'one_time_cost': ...}
MergeCosts(it, c) ==
    [k \in DOMAIN it \cup {"unit_cost", "annual_cost", "one_time_cost"} |->
        IF k \in {"unit_cost", "annual_cost", "one_time_cost"} THEN c[k] ELSE it[k]]

\* position of a key in an insertion-ordered dict, 0 when it is not a key
KeyIndex(d, key) ==
    IF \E k \in 1..Len(d) : d[k].key = key
    THEN CHOOSE k \in 1..Len(d) : d[k].key = key
    ELSE 0

\* Aggregate without the test "category not in category_totals": the entry
\* of the category is created anew for every item
Aggregate_reopened(totals, it, c, calculated_item) ==
    LET category == Get(it, "category", Str("Uncategorized"))
        fresh == [key |-> category,
                  value |-> [annual_cost |-> Zero, one_time_cost |-> Zero, items |-> <<>>]]
        opened == IF KeyIndex(totals, category) = 0
                  THEN Append(totals, fresh)
                  ELSE [totals EXCEPT ![KeyIndex(totals, category)] = fresh]
        at == KeyIndex(opened, category)
    IN  [opened EXCEPT
            ![at].value.annual_cost = RAdd(@, c.annual_cost),
            ![at].value.one_time_cost = RAdd(@, c.one_time_cost),
            ![at].value.items = Append(@, calculated_item)]

\* Aggregate putting a new category and a new item first instead of last
Aggregate_prepending(totals, it, c, calculated_item) ==
    LET category == Get(it, "category", Str("Uncategorized"))
        opened == IF KeyIndex(totals, category) = 0
                  THEN <<[key |-> category,
                          value |-> [annual_cost |-> Zero,
                                     one_time_cost |-> Zero,
                                     items |-> <<>>]]>> \o totals
                  ELSE totals
        at == KeyIndex(opened, category)
    IN  [opened EXCEPT
            ![at].value.annual_cost = RAdd(@, c.annual_cost),
            ![at].value.one_time_cost = RAdd(@, c.one_time_cost),
            ![at].value.items = <<calculated_item>> \o @]

\* the body of the for loop of calculate_all_costs after the costs of the
\* item are known: category_totals with the item aggregated
Aggregate(totals, it, c, calculated_item) ==
    LET category == Get(it, "category", Str("Uncategorized"))
        opened == IF KeyIndex(totals, category) = 0
                  THEN Append(totals, [key |-> category,
                                       value |-> [annual_cost |-> Zero,
                                                  one_time_cost |-> Zero,
                                                  items |-> <<>>]])
                  ELSE totals
        at == KeyIndex(opened, category)
    IN  [opened EXCEPT
            ![at].value.annual_cost = RAdd(@, c.annual_cost),
            ![at].value.one_time_cost = RAdd(@, c.one_time_cost),
            ![at].value.items = Append(@, calculated_item)]

\* sum(ct[field] for ct in category_totals.values())
RECURSIVE SumField(_, _)
SumField(totals, field) ==
    IF totals = <<>> THEN Zero
    ELSE RAdd(Head(totals).value[field], SumField(Tail(totals), field))

\* GrandTotals scaling the one-time total by the life expectancy as well
GrandTotals_one_time_scaled(items_out, totals, life) ==
    LET total_annual == SumField(totals, "annual_cost")
        total_one_time == SumField(totals, "one_time_cost")
        lifetime_annual == RMul(total_annual, life)
        grand_total == RMul(RAdd(total_annual, total_one_time), life)
    IN  [items |-> items_out,
         category_totals |-> totals,
         totals |-> [total_annual |-> Round2(total_annual),
                     total_one_time |-> Round2(total_one_time),
                     lifetime_annual |-> Round2(lifetime_annual),
                     grand_total |-> Round2(grand_total),
                     life_expectancy |-> life]]

\* the dict returned by calculate_all_costs
GrandTotals(items_out, totals, life) ==
    LET total_annual == SumField(totals, "annual_cost")
        total_one_time == SumField(totals, "one_time_cost")
        lifetime_annual == RMul(total_annual, life)
        grand_total == RAdd(lifetime_annual, total_one_time)
    IN  [items |-> items_out,
         category_totals |-> totals,
         totals |-> [total_annual |-> Round2(total_annual),
                     total_one_time |-> Round2(total_one_time),
                     lifetime_annual |-> Round2(lifetime_annual),
                     grand_total |-> Round2(grand_total),
                     life_expectancy |-> life]]

(***************************************************************************)
(* Frequency texts explored.  Numbers are written in decimal as a          *)
(* spreadsheet author would type them.                                     *)
(***************************************************************************)
RECURSIVE IntToStr(_)
IntToStr(n) == IF n < 10 THEN Digits[n + 1] ELSE IntToStr(n \div 10) \o Digits[(n % 10) + 1]

Nums == (0..MaxNum) \cup {5, 8, 10, 24}

VisitsEvery(n, m) == IntToStr(n) \o " visits every " \o IntToStr(m) \o " years"

VisitsIn(n, m) == IntToStr(n) \o " visit " \o IntToStr(m) \o " year"

VisitsYearly(n) == IntToStr(n) \o " visits every year"

TimesPer(n, unit, per) == IntToStr(n) \o unit \o per \o "year"

EveryYears(n) == "every " \o IntToStr(n) \o " years"

EveryRange(n, m) == "every " \o IntToStr(n) \o "-" \o IntToStr(m) \o " years"

TimesUnits == {"x", " times ", " time ", "X "}

TimesPers == {"/", "per ", "a ", " / "}

TableKeys == {FREQUENCY_MULTIPLIERS[k].pattern : k \in 1..Len(FREQUENCY_MULTIPLIERS)}

PatternPhrases ==
    {VisitsEvery(n, m) : n \in Nums, m \in Nums}
    \cup {VisitsIn(n, m) : n \in Nums, m \in Nums}
    \cup {VisitsYearly(n) : n \in Nums}
    \cup {TimesPer(n, u, p) : n \in Nums, u \in TimesUnits, p \in TimesPers}
    \cup {EveryYears(n) : n \in Nums}
    \cup {EveryRange(n, m) : n \in Nums, m \in Nums}

OtherPhrases ==
    {"", " ", "as needed", "daily", "2", "3 visits per year", "every year",
     "Monthly", "YEARLY", "  yearly ", "One Time", "ONE-TIME purchase", "onetime"}

MixPhrases ==
    {"one time", "one-time", "2 visits every 5 years", "3x/year", "every 2 years",
     "every 8-10 years", "monthly", "yearly", "every 0 years", "as needed"}

FreqTexts ==
    PatternPhrases \cup TableKeys \cup OtherPhrases
    \cup {Upper(ph) : ph \in TableKeys}
    \cup {a \o ", " \o b : a \in MixPhrases, b \in MixPhrases}

FreqValues == {None} \cup {Str(t) : t \in FreqTexts}

(***************************************************************************)
(* Values of the variables a specification does not use.                   *)
(***************************************************************************)
IdleFreq == freq_str = None /\ freq_ret = Pending

IdleCost == cost_str = None /\ cost_ret = Pending

IdleLookup == code = None /\ code_type = None /\ geo_mult = One /\ lookup_ret = Pending

IdleTables == pfr_lookup = EmptyDict /\ apc_lookup = EmptyDict

IdleItem == item = EmptyDict /\ patient_info = EmptyDict /\ costs = Pending

IdleAll ==
    /\ workbook_data = EmptyDict
    /\ life_expectancy = Zero
    /\ item_index = 0
    /\ calculated_items = <<>>
    /\ category_totals = <<>>
    /\ cost_data = Pending

IdleParser ==
    /\ request = EmptyDict
    /\ wb = EmptyDict
    /\ row = 0
    /\ items = <<>>
    /\ parse_ret = Pending
    /\ response = Pending
    /\ calls = <<>>
    /\ workbook_file = FALSE
    /\ case = None

(***************************************************************************)
(* SpecFreq: one call of parse_frequency on an explored frequency value.   *)
(***************************************************************************)
InitFreq ==
    /\ pc = "parse_frequency"
    /\ freq_str \in FreqValues
    /\ freq_ret = Pending
    /\ IdleCost /\ IdleLookup /\ IdleTables /\ IdleItem /\ IdleAll /\ IdleParser

ParseFrequency ==
    /\ pc = "parse_frequency"
    /\ freq_ret' = parse_frequency(freq_str)
    /\ pc' = "done"
    /\ UNCHANGED <<freq_str, costVars, lookupVars, tableVars, itemVars, allVars,
                 parserVars>>

NextFreq == ParseFrequency

SpecFreq == InitFreq /\ [][NextFreq]_vars

\* the call returned the pair (is_annual, num / den)
GivesPair(ret, is_annual, num, den) ==
    /\ Returned(ret)
    /\ den # 0
    /\ ret.value.is_annual = is_annual
    /\ ret.value.multiplier = Rat(num, den)

\* C1: parse_frequency never fails with a division by zero; for every input,
\* also one whose matched period digits are 0, it returns a pair.
C1_NeverDividesByZero ==
    pc = "done" => Returned(freq_ret)

\* C7: for every key of FREQUENCY_MULTIPLIERS, parse_frequency(key) is
\* (True, table value) for a non-zero table value and (False, 1.0) for 0.0.
C7_TableKeysExact ==
    \A k \in 1..Len(FREQUENCY_MULTIPLIERS) :
        LET e == FREQUENCY_MULTIPLIERS[k] IN
        (pc = "done" /\ freq_str = Str(e.pattern)) =>
            IF IsZero(e.mult)
            THEN GivesPair(freq_ret, FALSE, 1, 1)
            ELSE GivesPair(freq_ret, TRUE, e.mult[1], e.mult[2])

\* C8: parse_frequency agrees with the reference rules: "N visits [every] M
\* years" gives (True, N/M), M defaulting to 1; "N times|x per|a|/ year" gives
\* (True, N); "every N years" gives (True, 1/N); "every N-M years" gives
\* (True, 1/((N+M)/2)); and the six worked examples.
C8_ReferenceRules ==
    pc = "done" =>
        /\ \A n \in Nums, m \in Nums :
              /\ freq_str = Str(VisitsEvery(n, m)) => GivesPair(freq_ret, TRUE, n, m)
              /\ freq_str = Str(VisitsIn(n, m)) => GivesPair(freq_ret, TRUE, n, m)
              /\ freq_str = Str(EveryRange(n, m)) => GivesPair(freq_ret, TRUE, 2, n + m)
        /\ \A n \in Nums :
              /\ freq_str = Str(VisitsYearly(n)) => GivesPair(freq_ret, TRUE, n, 1)
              /\ freq_str = Str(EveryYears(n)) => GivesPair(freq_ret, TRUE, 1, n)
              /\ \A u \in TimesUnits, p \in TimesPers :
                    freq_str = Str(TimesPer(n, u, p)) => GivesPair(freq_ret, TRUE, n, 1)
        /\ freq_str = Str("2x/year") => GivesPair(freq_ret, TRUE, 2, 1)
        /\ freq_str = Str("every 5 years") => GivesPair(freq_ret, TRUE, 1, 5)
        /\ freq_str = Str("every 8-10 years") => GivesPair(freq_ret, TRUE, 1, 9)
        /\ freq_str = Str("24 visits every 5 years") => GivesPair(freq_ret, TRUE, 24, 5)
        /\ freq_str = Str("one time") => GivesPair(freq_ret, FALSE, 1, 1)
        /\ freq_str = Str("") => GivesPair(freq_ret, FALSE, 0, 1)

\* C8 restricted to positive periods (the part of the rules that does not
\* rest on a division by a zero period)
C8_PositivePeriods ==
    pc = "done" =>
        /\ \A n \in Nums, m \in Nums \ {0} :
              /\ freq_str = Str(VisitsEvery(n, m)) => GivesPair(freq_ret, TRUE, n, m)
              /\ freq_str = Str(VisitsIn(n, m)) => GivesPair(freq_ret, TRUE, n, m)
        /\ \A n \in Nums, m \in Nums :
              (n + m > 0 /\ freq_str = Str(EveryRange(n, m))) => GivesPair(freq_ret, TRUE, 2, n + m)
        /\ \A n \in Nums :
              /\ freq_str = Str(VisitsYearly(n)) => GivesPair(freq_ret, TRUE, n, 1)
              /\ (n > 0 /\ freq_str = Str(EveryYears(n))) => GivesPair(freq_ret, TRUE, 1, n)
              /\ \A u \in TimesUnits, p \in TimesPers :
                    freq_str = Str(TimesPer(n, u, p)) => GivesPair(freq_ret, TRUE, n, 1)

(***************************************************************************)
(* Cost cell values explored: None, numbers, and every text of at most     *)
(* MaxCostLen characters over CostAlphabet, plus the documented examples.  *)
(***************************************************************************)
CostAlphabet == {"1", "5", "0", ".", "-", ";", ",", "$", " ", "a"}

RECURSIVE TextsUpTo(_)
TextsUpTo(n) ==
    IF n = 0 THEN {""}
    ELSE TextsUpTo(n - 1) \cup {t \o c : t \in TextsUpTo(n - 1), c \in CostAlphabet}

CostExamples ==
    {"1,671.00", "1671; 853", "abc", "307", "$1,200.50", "1.2.3; 4", "12; 1-2",
     "--5; 1", " 15 ; $ 5 ; 2.5", "-5; 3", "N/A; 10"}

CostNumbers == {Zero, Whole(100), Rat(5, 2), Rat(1, 250), Whole(-20)}

CostValues ==
    {None} \cup {Num(q) : q \in CostNumbers}
    \cup {Str(t) : t \in TextsUpTo(MaxCostLen) \cup CostExamples}

(***************************************************************************)
(* SpecCost: one call of parse_cost_string on an explored cell value.      *)
(***************************************************************************)
InitCost ==
    /\ pc = "parse_cost_string"
    /\ cost_str \in CostValues
    /\ cost_ret = Pending
    /\ IdleFreq /\ IdleLookup /\ IdleTables /\ IdleItem /\ IdleAll /\ IdleParser

ParseCostString ==
    /\ pc = "parse_cost_string"
    /\ cost_ret' = parse_cost_string(cost_str)
    /\ pc' = "done"
    /\ UNCHANGED <<cost_str, freqVars, lookupVars, tableVars, itemVars, allVars,
                 parserVars>>

NextCost == ParseCostString

SpecCost == InitCost /\ [][NextCost]_vars

\* a cleaned part made solely of digits with at most one '.' and an optional
\* leading '-'
NumericLooking(t) ==
    LET body == IF t # "" /\ At(t, 1) = "-" THEN SubSeq(t, 2, Len(t)) ELSE t
    IN  /\ IsDigitStr(Remove(body, "."))
        /\ Len(body) - Len(Remove(body, ".")) <= 1

\* the sum the filter rule prescribes for parts k.. of a split text
RECURSIVE FilteredSum(_, _)
FilteredSum(parts, k) ==
    IF k > Len(parts) THEN Zero
    ELSE LET t == Remove(Remove(Strip(parts[k]), ","), "$")
         IN  RAdd(IF NumericLooking(t) THEN ToFloat(t).value ELSE Zero,
                  FilteredSum(parts, k + 1))

\* C5: on a string containing ';' parse_cost_string never raises; each part,
\* stripped and with ',' and '$' removed, is summed only if it is digits with
\* at most one '.' and an optional leading '-'; any other part contributes 0.
C5_SemicolonPartsFiltered ==
    (pc = "done" /\ cost_str.kind = "str" /\ Contains(cost_str.s, ";")) =>
        /\ Returned(cost_ret)
        /\ cost_ret.value = FilteredSum(Split(Strip(cost_str.s), ";"), 1)

\* C20: parse_cost_string returns a number unchanged as a float, 0.0 for
\* None or an empty string, and for a string without ';' the float value of
\* the string with ',' and '$' removed, or 0.0 when that is not a number,
\* never raising; "1,671.00" gives 1671.00, "1671; 853" gives 2524.0 and
\* "abc" gives 0.0.
C20_ParseCostStringContract ==
    pc = "done" =>
        /\ cost_str.kind = "none" => cost_ret = Return(Zero)
        /\ cost_str.kind = "num" => cost_ret = Return(cost_str.q)
        /\ cost_str = Str("") => cost_ret = Return(Zero)
        /\ (cost_str.kind = "str" /\ ~Contains(cost_str.s, ";")) =>
              LET number == ToFloat(Remove(Remove(cost_str.s, ","), "$"))
              IN  cost_ret = Return(IF Returned(number) THEN number.value ELSE Zero)
        /\ cost_str = Str("1,671.00") => cost_ret = Return(Whole(1671))
        /\ cost_str = Str("1671; 853") => cost_ret = Return(Whole(2524))
        /\ cost_str = Str("abc") => cost_ret = Return(Zero)

\* a text with both a currency sign and a thousands separator
C20_Witness ==
    /\ pc = "done"
    /\ cost_str = Str("$1,200.50")
    /\ cost_ret = Return(Rat(2401, 2))

(***************************************************************************)
(* Codes, code types, price tables and multipliers explored.               *)
(***************************************************************************)
CodeAlphabet == {"A", "B", "Z", ";", " "}

RECURSIVE CodesUpTo(_)
CodesUpTo(n) ==
    IF n = 0 THEN {""}
    ELSE CodesUpTo(n - 1) \cup {t \o c : t \in CodesUpTo(n - 1), c \in CodeAlphabet}

CodeValues == {None} \cup {Str(t) : t \in CodesUpTo(MaxCodeLen) \cup {"A; B; A", " B ;; Z;A"}}

CodeTypeValues ==
    {None} \cup {Str(t) : t \in {"", "PFR", "APC", "apc", " Facility fee", "PFR/APC", "DRG"}}

PfrTables == {EmptyDict, [A |-> Whole(100), B |-> Rat(81, 2)]}

ApcTables == {EmptyDict, [A |-> Whole(50), Z |-> Rat(29, 4)]}

GeoMults == {One, Rat(3, 2), Rat(9, 10)}

(***************************************************************************)
(* SpecLookup: one call of lookup_cost.                                    *)
(***************************************************************************)
InitLookup ==
    /\ pc = "lookup_cost"
    /\ code \in CodeValues
    /\ code_type \in CodeTypeValues
    /\ geo_mult \in GeoMults
    /\ pfr_lookup \in PfrTables
    /\ apc_lookup \in ApcTables
    /\ lookup_ret = Pending
    /\ IdleFreq /\ IdleCost /\ IdleItem /\ IdleAll /\ IdleParser

LookupCost ==
    /\ pc = "lookup_cost"
    /\ lookup_ret' = Return(lookup_cost(code, code_type, pfr_lookup, apc_lookup, geo_mult))
    /\ pc' = "done"
    /\ UNCHANGED <<code, code_type, geo_mult, tableVars, freqVars, costVars, itemVars, allVars,
                 parserVars>>

NextLookup == LookupCost

SpecLookup == InitLookup /\ [][NextLookup]_vars

\* the segments of a code text: the maximal runs without ';', blanks trimmed,
\* empty ones dropped
Segments(t) == SelectSeq([k \in 1..Len(Split(t, ";")) |-> Strip(Split(t, ";")[k])],
                         LAMBDA seg : seg # "")

\* price of one code under the pricing rule
PriceOf(cpt, ct, pfr, apc, geo) ==
    LET pfr_price == IF pfr # EmptyDict /\ cpt \in DOMAIN pfr THEN pfr[cpt] ELSE Zero
        apc_price == IF apc # EmptyDict /\ cpt \in DOMAIN apc THEN apc[cpt] ELSE Zero
        upper == IF ct.kind = "str" THEN Upper(ct.s) ELSE ""
    IN  IF Contains(upper, "APC") \/ Contains(upper, "FACILITY")
        THEN RAdd(pfr_price, RMul(apc_price, geo))
        ELSE pfr_price

RECURSIVE SumPrices(_, _, _, _, _)
SumPrices(segs, ct, pfr, apc, geo) ==
    IF segs = <<>> THEN Zero
    ELSE RAdd(PriceOf(Head(segs), ct, pfr, apc, geo), SumPrices(Tail(segs), ct, pfr, apc, geo))

\* C10: lookup_cost returns the sum over the non-empty trimmed ';'-separated
\* segments of code of pfr_price + apc_price x geo_mult for a code type
\* containing "APC" or "FACILITY" (ignoring case) and of pfr_price otherwise,
\* a missing code pricing at 0; it returns 0 for an empty or absent code, and
\* 175 for pfr = 100, apc = 50, geo = 1.5, type APC.
C10_LookupCostIsSegmentSum ==
    pc = "done" =>
        /\ Returned(lookup_ret)
        /\ lookup_ret.value =
              IF code.kind = "none" \/ code.s = "" THEN Zero
              ELSE SumPrices(Segments(code.s), code_type, pfr_lookup, apc_lookup, geo_mult)
        /\ (/\ code = Str("A") /\ code_type = Str("APC") /\ geo_mult = Rat(3, 2)
            /\ pfr_lookup # EmptyDict /\ apc_lookup # EmptyDict)
           => lookup_ret.value = Whole(175)

\* a facility-priced lookup of several codes around an empty segment, each
\* missing from one of the tables, with a multiplier other than 1
C10_Witness ==
    /\ pc = "done"
    /\ code = Str(" B ;; Z;A")
    /\ code_type = Str(" Facility fee")
    /\ geo_mult = Rat(3, 2)
    /\ pfr_lookup # EmptyDict /\ apc_lookup # EmptyDict
    /\ lookup_ret = Return(Rat(1811, 8))

(***************************************************************************)
(* Items and patient attributes explored.  An item is the dict built by    *)
(* parse_master_items, here also with keys missing; patient_info is the    *)
(* dict built by parse_patient_info.                                       *)
(***************************************************************************)
ItemCostValues ==
    {Absent, None, Num(Zero), Num(Whole(100)), Num(Rat(1, 250))}
    \cup {Str(t) : t \in {"", " ", "0", "250", "12.50; 7.50", "1-; 5", "abc"}}

ItemCodeValues == {Absent} \cup {Str(t) : t \in {"", "A", "A; B", "Z"}}

ItemCodeTypes == {Absent, Str("PFR"), Str("apc")}

ItemFreqValues ==
    {Absent, None}
    \cup {Str(t) : t \in {"", "one time", "yearly", "as needed", "24 visits every 5 years",
                          "every 8-10 years"}}
    \cup {Str(TimesPer(n, "x", "/")) : n \in 0..MaxNum}
    \cup {Str(EveryYears(n)) : n \in 0..MaxNum}

PatientGeoValues == {Absent, None, Num(Rat(3, 2)), Num(Zero), Str("1.5"), Str("n/a")}

(***************************************************************************)
(* SpecItem: one call of calculate_item_costs.                             *)
(***************************************************************************)
InitItem ==
    /\ pc = "calculate_item_costs"
    /\ \E cost \in ItemCostValues, cd \in ItemCodeValues, ct \in ItemCodeTypes,
          fr \in ItemFreqValues :
          item = Present([item |-> Str("Wheelchair"), cost |-> cost, code |-> cd,
                          code_type |-> ct, frequency |-> fr])
    /\ \E g \in PatientGeoValues :
          patient_info = Present([patient_name |-> Str("Pat"), geographic_multiplier |-> g])
    /\ pfr_lookup = [A |-> Whole(100), B |-> Rat(81, 2)]
    /\ apc_lookup \in ApcTables
    /\ costs = Pending
    /\ IdleFreq /\ IdleCost /\ IdleLookup /\ IdleAll /\ IdleParser

CalculateItemCosts ==
    /\ pc = "calculate_item_costs"
    /\ costs' = calculate_item_costs(item, patient_info, pfr_lookup, apc_lookup)
    /\ pc' = "done"
    /\ UNCHANGED <<item, patient_info, tableVars, freqVars, costVars, lookupVars, allVars,
                 parserVars>>

NextItem == CalculateItemCosts

SpecItem == InitItem /\ [][NextItem]_vars

\* calculate_item_costs returned a result dict
ItemDone == pc = "done" /\ Returned(costs)

\* C2 as stated: an item whose frequency is empty or absent is zero-cost:
\* parse_frequency returns (False, 0) and calculate_item_costs gives it
\* annual_cost = 0 and one_time_cost = 0, whatever its unit cost.
C2_EmptyFrequencyIsZeroCost ==
    (ItemDone /\ Get(item, "frequency", Str("")) \in {None, Str("")}) =>
        /\ GivesPair(parse_frequency(Get(item, "frequency", Str(""))), FALSE, 0, 1)
        /\ costs.value.annual_cost = Zero
        /\ costs.value.one_time_cost = Zero

\* C2 (amended): an item whose frequency is empty or absent is a one-time
\* item charged its unit cost once: parse_frequency returns (False, 0) and
\* calculate_item_costs gives it annual_cost = 0 and one_time_cost =
\* unit_cost, unrounded.
C2_EmptyFrequencyIsOneTimeUnitCost ==
    (ItemDone /\ Get(item, "frequency", Str("")) \in {None, Str("")}) =>
        /\ GivesPair(parse_frequency(Get(item, "frequency", Str(""))), FALSE, 0, 1)
        /\ costs.value.annual_cost = Zero
        /\ costs.value.one_time_cost = costs.value.unit_cost

\* an item with an empty frequency text and a unit cost that rounding to
\* cents would change
C2_Witness ==
    /\ ItemDone
    /\ Get(item, "frequency", None) = Str("")
    /\ costs.value.unit_cost = Rat(1, 250)
    /\ costs.value.one_time_cost = Rat(1, 250)

\* C3 as stated: exactly one of annual_cost and one_time_cost is non-zero
\* whenever unit_cost is non-zero, and both are zero only when unit_cost is
\* zero.
C3_ExactlyOneNonZero ==
    ItemDone =>
        /\ ~IsZero(costs.value.unit_cost) =>
              (IsZero(costs.value.annual_cost) # IsZero(costs.value.one_time_cost))
        /\ (IsZero(costs.value.annual_cost) /\ IsZero(costs.value.one_time_cost)) =>
              IsZero(costs.value.unit_cost)

\* C3 (amended): annual_cost and one_time_cost are never both non-zero, and
\* both are zero when unit_cost is zero; with a non-zero unit_cost both may
\* still be zero.
C3_AtMostOneNonZero ==
    ItemDone =>
        /\ IsZero(costs.value.annual_cost) \/ IsZero(costs.value.one_time_cost)
        /\ IsZero(costs.value.unit_cost) =>
              (IsZero(costs.value.annual_cost) /\ IsZero(costs.value.one_time_cost))

\* a recurring item with a non-zero unit cost: annual cost only
C3_Witness ==
    /\ ItemDone
    /\ Get(item, "frequency", None) = Str("2x/year")
    /\ costs.value.unit_cost = Whole(100)
    /\ costs.value.annual_cost = Whole(200)
    /\ costs.value.one_time_cost = Zero

\* the raw cost of an item is present and non-empty: a number or a non-empty
\* string
RawCostPresent(it) ==
    LET raw == Get(it, "cost", None)
    IN  raw.kind = "num" \/ (raw.kind = "str" /\ raw.s # "")

\* C9: whenever the raw cost is present and non-empty, unit_cost is
\* parse_cost_string(raw cost), independent of code, code_type, the price
\* tables and the geographic multiplier.
C9_RawCostTakesPrecedence ==
    (ItemDone /\ RawCostPresent(item)) =>
        costs.value.unit_cost = parse_cost_string(item["cost"]).value

(***************************************************************************)
(* Spec: one call of calculate_all_costs on a parsed workbook, one loop    *)
(* iteration per step.                                                     *)
(***************************************************************************)
PlanItems ==
    {[category |-> Str("Therapy"), item |-> Str("Physical therapy"),
      cost |-> Num(Whole(100)), frequency |-> Str("2x/year")],
     [category |-> Str("Therapy"), item |-> Str("Evaluation"),
      cost |-> Num(Whole(50)), frequency |-> Str("one time")],
     [category |-> Str("Equipment"), item |-> Str("Wheelchair"), code |-> Str("A"),
      code_type |-> Str("APC"), cost |-> None, frequency |-> Str("every 3 years")],
     [category |-> Str(""), item |-> Str("Ramp"), cost |-> Str("1,671.00"),
      frequency |-> Str("")],
     [item |-> Str("Cushion"), cost |-> Num(Rat(1, 250)), frequency |-> Str("yearly")],
     [category |-> Str("Equipment"), item |-> Str("Lift"), cost |-> Str("1-; 5"),
      frequency |-> Str("yearly")],
     [category |-> Str("Therapy"), item |-> Str("Review"), cost |-> Num(Whole(100)),
      frequency |-> Str("every 0 years")],
     [category |-> Str("Equipment"), item |-> Str("Brace"), cost |-> Str("abc"),
      code |-> Str("B"), code_type |-> Str(""), frequency |-> Str("monthly")],
     [category |-> Str("Therapy"), item |-> Str("Massage"), cost |-> Num(Whole(100)),
      frequency |-> Str("yearly")]}

RECURSIVE SeqsUpTo(_, _)
SeqsUpTo(S, n) ==
    IF n = 0 THEN {<<>>}
    ELSE SeqsUpTo(S, n - 1) \cup {Append(q, x) : q \in SeqsUpTo(S, n - 1), x \in S}

LifeExpectancyValues == {Absent, None, Num(Whole(10)), Num(Rat(5, 2)), Str("unknown")}

Init ==
    /\ pc = "calculate_all_costs"
    /\ \E le \in LifeExpectancyValues, g \in {Absent, Num(Rat(3, 2))},
          its \in SeqsUpTo(PlanItems, MaxItems) :
          workbook_data =
              [patient_info |-> Present([patient_name |-> Str("Pat"),
                                         life_expectancy |-> le,
                                         geographic_multiplier |-> g]),
               items |-> its,
               pfr_lookup |-> [A |-> Whole(100), B |-> Rat(81, 2)],
               apc_lookup |-> [A |-> Whole(50), Z |-> Rat(29, 4)]]
    /\ life_expectancy = Zero
    /\ item_index = 0
    /\ calculated_items = <<>>
    /\ category_totals = <<>>
    /\ cost_data = Pending
    /\ IdleFreq /\ IdleCost /\ IdleLookup /\ IdleTables /\ IdleItem /\ IdleParser

otherVars == <<freqVars, costVars, lookupVars, tableVars, itemVars, parserVars>>

\* lines 102-111: unpack the workbook, convert life_expectancy
Begin ==
    /\ pc = "calculate_all_costs"
    /\ \E le \in {FloatOr(workbook_data.patient_info, "life_expectancy", Zero)} :
          IF Raised(le)
          THEN /\ cost_data' = le
               /\ pc' = "done"
               /\ UNCHANGED <<life_expectancy, item_index>>
          ELSE /\ life_expectancy' = le.value
               /\ item_index' = 1
               /\ pc' = "loop"
               /\ UNCHANGED cost_data
    /\ UNCHANGED <<workbook_data, calculated_items, category_totals, otherVars>>

\* lines 113-135: one iteration of the for loop
ItemStep ==
    /\ pc = "loop"
    /\ item_index <= Len(workbook_data.items)
    /\ \E it \in {workbook_data.items[item_index]} :
       \E c \in {calculate_item_costs(it, workbook_data.patient_info,
                                      workbook_data.pfr_lookup,
                                      workbook_data.apc_lookup)} :
          IF Raised(c)
          THEN /\ cost_data' = c
               /\ pc' = "done"
               /\ UNCHANGED <<item_index, calculated_items, category_totals>>
          ELSE /\ \E calculated_item \in {MergeCosts(it, c.value)} :
                     /\ calculated_items' = Append(calculated_items, calculated_item)
                     /\ category_totals' = Aggregate(category_totals, it, c.value,
                                                     calculated_item)
               /\ item_index' = item_index + 1
               /\ UNCHANGED <<pc, cost_data>>
    /\ UNCHANGED <<workbook_data, life_expectancy, otherVars>>

\* lines 137-153: grand totals and return
Finish ==
    /\ pc = "loop"
    /\ item_index > Len(workbook_data.items)
    /\ cost_data' = Return(GrandTotals(calculated_items, category_totals, life_expectancy))
    /\ pc' = "done"
    /\ UNCHANGED <<workbook_data, life_expectancy, item_index, calculated_items,
                   category_totals, otherVars>>

Next == Begin \/ ItemStep \/ Finish

Spec == Init /\ [][Next]_vars

\* C4: for any patient attributes, price tables and items, also items with
\* malformed cost, code or frequency fields, calculate_all_costs returns a
\* result and never raises.
C4_NeverRaises ==
    pc = "done" => Returned(cost_data)

\* the category an item is to be filed under: "Uncategorized" when its
\* category is empty or missing
FiledUnder(it) ==
    IF Get(it, "category", Str("")) = Str("") THEN Str("Uncategorized") ELSE it["category"]

\* C6: every item whose category is empty or missing is placed under the key
\* "Uncategorized"; no key of category_totals is the empty string.
C6_EmptyCategoryIsUncategorized ==
    (pc = "done" /\ Returned(cost_data)) =>
        LET totals == cost_data.value.category_totals IN
        /\ \A k \in 1..Len(totals) : totals[k].key # Str("")
        /\ \A n \in 1..Len(cost_data.value.items) :
              \E k \in 1..Len(totals) :
                  /\ totals[k].key = FiledUnder(workbook_data.items[n])
                  /\ \E j \in 1..Len(totals[k].value.items) :
                        totals[k].value.items[j] = cost_data.value.items[n]

(***************************************************************************)
(* The totals record of calculate_all_costs.                               *)
(***************************************************************************)
\* calculate_all_costs returned its result dict
AllDone == pc = "done" /\ Returned(cost_data)

\* sum of a cost field over a list of computed items
RECURSIVE SumItems(_, _)
SumItems(its, field) ==
    IF its = <<>> THEN Zero ELSE RAdd(Head(its)[field], SumItems(Tail(its), field))

\* C11 as stated: on the returned, rounded values lifetime_annual =
\* total_annual x life_expectancy and grand_total = lifetime_annual +
\* total_one_time, for every item list and every life expectancy, also a
\* fractional one.
C11_TotalsIdentitiesOnReturned ==
    AllDone =>
        LET t == cost_data.value.totals IN
        /\ t.lifetime_annual = RMul(t.total_annual, t.life_expectancy)
        /\ t.grand_total = RAdd(t.lifetime_annual, t.total_one_time)

\* C11 (amended): the identities hold of the unrounded sums, each returned
\* value being rounded to 2 decimals on its own: with A and O the sums of
\* annual_cost and one_time_cost over the returned categories, total_annual
\* = round(A, 2), total_one_time = round(O, 2), lifetime_annual = round(A x
\* life_expectancy, 2) and grand_total = round(A x life_expectancy + O, 2).
C11_TotalsIdentitiesBeforeRounding ==
    AllDone =>
        LET t == cost_data.value.totals
            A == SumField(cost_data.value.category_totals, "annual_cost")
            O == SumField(cost_data.value.category_totals, "one_time_cost")
        IN  /\ t.total_annual = Round2(A)
            /\ t.total_one_time = Round2(O)
            /\ t.lifetime_annual = Round2(RMul(A, t.life_expectancy))
            /\ t.grand_total = Round2(RAdd(RMul(A, t.life_expectancy), O))

\* annual costs 200 and 100 and a one-time cost 50 over 10 years: 3000 and
\* 3050
C11_Witness ==
    /\ AllDone
    /\ Len(cost_data.value.items) = 3
    /\ cost_data.value.totals =
          [total_annual |-> Whole(300), total_one_time |-> Whole(50),
           lifetime_annual |-> Whole(3000), grand_total |-> Whole(3050),
           life_expectancy |-> Whole(10)]

(***************************************************************************)
(* Categories of the result of calculate_all_costs.                        *)
(***************************************************************************)
\* the positions of the input items whose category is key, in input order
RECURSIVE PositionsOf(_, _, _)
PositionsOf(its, key, n) ==
    IF n > Len(its) THEN <<>>
    ELSE IF Get(its[n], "category", Str("Uncategorized")) = key
         THEN <<n>> \o PositionsOf(its, key, n + 1)
         ELSE PositionsOf(its, key, n + 1)

FullAmount(out_item, field) ==
    LET freq == parse_frequency(Get(out_item, "frequency", Str(""))).value
    IN  IF freq.is_annual
        THEN (IF field = "annual_cost" THEN RMul(out_item.unit_cost, freq.multiplier) ELSE Zero)
        ELSE (IF field = "annual_cost" THEN Zero
              ELSE IF IsZero(freq.multiplier) THEN out_item.unit_cost
              ELSE RMul(out_item.unit_cost, freq.multiplier))

RECURSIVE SumFull(_, _)
SumFull(its, field) ==
    IF its = <<>> THEN Zero ELSE RAdd(FullAmount(Head(its), field), SumFull(Tail(its), field))

\* C13: total_annual and total_one_time are the full-precision sums over all
\* items of unit_cost x multiplier, rounded to 2 decimals once at the return;
\* no item amount is rounded before it is accumulated into its category or
\* into a grand total.
C13_RoundedOnlyAtReturn ==
    AllDone =>
        LET out == cost_data.value.items
            totals == cost_data.value.category_totals
        IN  /\ cost_data.value.totals.total_annual = Round2(SumFull(out, "annual_cost"))
            /\ cost_data.value.totals.total_one_time = Round2(SumFull(out, "one_time_cost"))
            /\ \A k \in 1..Len(totals) :
                  /\ totals[k].value.annual_cost =
                        SumFull(totals[k].value.items, "annual_cost")
                  /\ totals[k].value.one_time_cost =
                        SumFull(totals[k].value.items, "one_time_cost")

(***************************************************************************)
(* Frame and order of the result of calculate_all_costs.                   *)
(***************************************************************************)
CostFields == {"unit_cost", "annual_cost", "one_time_cost"}

\* C15: calculate_all_costs returns one output item per input item in the
\* same order, each equal to its input item on every original field and
\* extended by exactly unit_cost, annual_cost and one_time_cost; the input
\* items, patient_info and both price tables are left unchanged.
C15_ItemsExtendedInputsUnchanged ==
    /\ [](AllDone =>
            LET out == cost_data.value.items
                its == workbook_data.items
            IN  /\ Len(out) = Len(its)
                /\ \A n \in 1..Len(its) :
                      /\ DOMAIN its[n] \cap CostFields = {}
                      /\ DOMAIN out[n] = DOMAIN its[n] \cup CostFields
                      /\ \A f \in DOMAIN its[n] : out[n][f] = its[n][f])
    /\ [][workbook_data' = workbook_data]_vars

\* three different items, with and without a category and a code, all
\* returned with their costs
C15_Witness ==
    /\ AllDone
    /\ Len(cost_data.value.items) = 3
    /\ cost_data.value.items[1].item = Str("Cushion")
    /\ cost_data.value.items[2].item = Str("Wheelchair")
    /\ cost_data.value.items[2].code = Str("A")
    /\ cost_data.value.items[2].annual_cost = Rat(5833, 100)
    /\ cost_data.value.items[3].item = Str("Evaluation")
    /\ cost_data.value.items[3].one_time_cost = Whole(50)

\* C16: the keys of category_totals are ordered by the position of each
\* category's first item in the input sequence, and the items list of each
\* category keeps the relative order its items had in the input sequence.
C16_FirstSeenOrder ==
    AllDone =>
        LET out == cost_data.value.items
            totals == cost_data.value.category_totals
            pos(k) == PositionsOf(workbook_data.items, totals[k].key, 1)
        IN  /\ \A k \in 1..Len(totals) :
                  /\ pos(k) # <<>>
                  /\ totals[k].value.items = [j \in 1..Len(pos(k)) |-> out[pos(k)[j]]]
            /\ \A k \in 1..Len(totals), k2 \in 1..Len(totals) :
                  k < k2 => Head(pos(k)) < Head(pos(k2))

\* categories interleaved in the input: Equipment, Therapy, Equipment
C16_Witness ==
    /\ AllDone
    /\ Len(cost_data.value.items) = 3
    /\ Len(cost_data.value.category_totals) = 2
    /\ cost_data.value.category_totals[1].key = Str("Equipment")
    /\ cost_data.value.category_totals[2].key = Str("Therapy")
    /\ Len(cost_data.value.category_totals[1].value.items) = 2
    /\ cost_data.value.category_totals[1].value.items[1].item = Str("Wheelchair")
    /\ cost_data.value.category_totals[1].value.items[2].item = Str("Brace")
    /\ cost_data.value.items[2].item = Str("Physical therapy")

(***************************************************************************)
(* workbook_parser.py                                                      *)
(*                                                                         *)
(* A workbook is [readable, sheets]: sheets maps the names of the sheets   *)
(* present to their cells.  The 'Patient Info' sheet is [E]: its column E, *)
(* a function from the row number to the cell value.  The 'Master' sheet   *)
(* is [rows, filled, marked]: the sequence of its first rows from row 6    *)
(* on, each a record of the columns A to K, followed up to the filled-th   *)
(* row by rows that differ in their check value (True for the marked ones) *)
(* and in their item name only.  A price sheet is [rows]: the sequence of  *)
(* its rows from row 2 on.  A cell outside the rows given is empty (None). *)
(***************************************************************************)
\* raise e(msg)
RaiseMsg(e, msg) == [raised |-> e, message |-> msg]

\* v or default
Or(v, default) == IF Truthy(v) THEN v ELSE default

\* d[k] = v on a dict
PutKey(d, k, v) == [x \in DOMAIN d \cup {k} |-> IF x = k THEN v ELSE d[x]]

\* the float values inf and nan
Inf == <<1, 0>>

NaN == <<0, 0>>

\* a text without its leading sign
Unsigned(t) == IF t # "" /\ At(t, 1) \in {"-", "+"} THEN SubSeq(t, 2, Len(t)) ELSE t

\* float(v) of a cell value
PyFloat(v) ==
    CASE v.kind = "num" -> Return(v.q)
      [] v.kind = "bool" -> Return(IF v.b THEN One ELSE Zero)
      [] v.kind = "str" ->
            IF Unsigned(Lower(Strip(v.s))) \in {"inf", "infinity"} THEN Return(Inf)
            ELSE IF Unsigned(Lower(Strip(v.s))) = "nan" THEN Return(NaN)
            ELSE ToFloat(v.s)
      [] OTHER -> Raise("TypeError")

\* int(x) of a float: truncation toward zero
IntOfFloat(x) ==
    IF x = Inf THEN Raise("OverflowError")
    ELSE IF x = NaN THEN Raise("ValueError")
    ELSE Return(IF x[1] < 0 THEN -((-x[1]) \div x[2]) ELSE x[1] \div x[2])

\* int(v) of a cell value
PyInt(v) ==
    CASE v.kind = "num" -> IntOfFloat(v.q)
      [] v.kind = "bool" -> Return(IF v.b THEN 1 ELSE 0)
      [] v.kind = "str" ->
            LET t == Strip(v.s)
            IN  IF IsDigitStr(Unsigned(t))
                THEN Return(IF At(t, 1) = "-" THEN -ToInt(Unsigned(t)) ELSE ToInt(Unsigned(t)))
                ELSE Raise("ValueError")
      [] OTHER -> Raise("TypeError")

\* int(x) of the outcome of float(): the error of float() goes through
IntOfOutcome(f) == IF Returned(f) THEN IntOfFloat(f.value) ELSE f

\* a + l of two outcomes of int(), a computed first
AddInts(a, l) ==
    IF Raised(a) THEN a
    ELSE IF Raised(l) THEN l
    ELSE Return(a.value + l.value)

\* int(age_initiated) + int(float(life_expectancy))
UntilAge(age_initiated, life) == AddInts(PyInt(age_initiated), IntOfOutcome(PyFloat(life)))

\* lines 69-90: the dict read from column E of the 'Patient Info' sheet
PatientInfo(ws) ==
    [date_of_report |-> ws[4],
     patient_name |-> ws[5],
     date_of_birth |-> ws[6],
     age |-> ws[7],
     date_of_injury |-> ws[8],
     life_expectancy |-> ws[9],
     age_initiated |-> ws[10],
     geographic_multiplier |-> Or(ws[11], Num(One)),
     city_state |-> ws[12],
     zipcode |-> ws[13],
     referring_attorney |-> ws[14]]

\* lines 98-101: until_age from the outcome of the sum, None on a
\* ValueError or a TypeError
WithUntilAge(info, until) ==
    IF Returned(until) THEN Return(PutKey(info, "until_age", Num(Whole(until.value))))
    ELSE IF until.raised \in {"ValueError", "TypeError"}
    THEN Return(PutKey(info, "until_age", None))
    ELSE until

\* lines 92-103: the required name, until_age and the return
ValidatedInfo(info) ==
    IF ~Truthy(info.patient_name)
    THEN RaiseMsg("MissingPatientInfoError", "Patient name is required")
    ELSE IF Truthy(info.age_initiated) /\ Truthy(info.life_expectancy)
    THEN WithUntilAge(info, UntilAge(info.age_initiated, info.life_expectancy))
    ELSE Return(info)

parse_patient_info(w) ==
    IF "Patient Info" \notin DOMAIN w.sheets
    THEN RaiseMsg("MissingPatientInfoError", "'Patient Info' sheet not found in workbook")
    ELSE ValidatedInfo(PatientInfo(w.sheets["Patient Info"].E))

\* the row where the data of the 'Master' sheet starts
FirstRow == 6

\* the safety limit of the scan
RowLimit == 1000

\* the columns A to K of a row of the 'Master' sheet
MasterRow(a, b, c, f, g, h, i) ==
    [A |-> a, B |-> b, C |-> c, D |-> None, E |-> Str("Service"), F |-> f, G |-> g,
     H |-> h, I |-> i, J |-> None, K |-> Str("Needed")]

\* the number of rows of a 'Master' sheet
SheetLen(ws) == IF ws.filled > Len(ws.rows) THEN ws.filled ELSE Len(ws.rows)

\* the k-th row of a 'Master' sheet, row 6 being the first
RowAt(ws, k) ==
    IF k <= Len(ws.rows) THEN ws.rows[k]
    ELSE MasterRow(Bool(k \in ws.marked), Str("Therapy"), Str(IntToStr(k + 5)), None, None,
                   Num(Whole(100)), Str("yearly"))

\* ws[f'{col}{r}'].value on a 'Master' sheet
MasterCell(ws, col, r) ==
    IF r - 5 \in 1..SheetLen(ws) THEN RowAt(ws, r - 5)[col] ELSE None

\* the decimal digits of rem / d after the point, at most k of them
RECURSIVE FracDigits(_, _, _)
FracDigits(rem, d, k) ==
    IF rem = 0 \/ k = 0 THEN ""
    ELSE Digits[((10 * rem) \div d) + 1] \o FracDigits((10 * rem) % d, d, k - 1)

\* str(v) of a cell value; a whole number is written as an int cell holds it
PyStr(v) ==
    CASE v.kind = "none" -> "None"
      [] v.kind = "bool" -> IF v.b THEN "True" ELSE "False"
      [] v.kind = "str" -> v.s
      [] v.kind = "num" ->
            (IF v.q[1] < 0 THEN "-" ELSE "")
            \o IntToStr(Abs(v.q[1]) \div v.q[2])
            \o (IF v.q[2] = 1 THEN ""
                ELSE "." \o FracDigits(Abs(v.q[1]) % v.q[2], v.q[2], 17))
      [] v.kind = "datetime" -> "2024-01-01 00:00:00"

\* Checked accepting the boolean True only
Checked_boolean_only(check_value) == check_value = Bool(TRUE)

\* check_value is True or str(check_value).upper() == 'TRUE'
Checked(check_value) == check_value = Bool(TRUE) \/ Upper(PyStr(check_value)) = "TRUE"

\* the item dict built from row r
ItemOf(ws, r) ==
    [category |-> Or(MasterCell(ws, "B", r), Str("")),
     item |-> Or(MasterCell(ws, "C", r), Str("")),
     subcategory |-> Or(MasterCell(ws, "D", r), Str("")),
     service_description |-> Or(MasterCell(ws, "E", r), Str("")),
     code_type |-> Or(MasterCell(ws, "F", r), Str("")),
     code |-> Or(MasterCell(ws, "G", r), Str("")),
     cost |-> MasterCell(ws, "H", r),
     frequency |-> Or(MasterCell(ws, "I", r), Str("")),
     source |-> Or(MasterCell(ws, "J", r), Str("")),
     rationale |-> Or(MasterCell(ws, "K", r), Str(""))]

\* one iteration of the while loop of parse_master_items at row r with the
\* items acc: the items and the row after it, and whether the loop is left
MasterBody(ws, r, acc) ==
    IF MasterCell(ws, "B", r) = None /\ MasterCell(ws, "C", r) = None
    THEN [break |-> TRUE, items |-> acc, row |-> r]
    ELSE [break |-> r + 1 > RowLimit,
          items |-> IF Checked(MasterCell(ws, "A", r)) THEN Append(acc, ItemOf(ws, r)) ELSE acc,
          row |-> r + 1]

\* the while loop from row r on (a value bound over a one-element set is
\* computed once, as the code computes it)
RECURSIVE MasterLoop(_, _, _)
MasterLoop(ws, r, acc) ==
    CHOOSE ret \in {IF body.break THEN body.items
                    ELSE MasterLoop(ws, body.row, body.items) :
                       body \in {MasterBody(ws, r, acc)}} : TRUE

parse_master_items(w) ==
    IF "Master" \notin DOMAIN w.sheets
    THEN RaiseMsg("WorkbookParseError", "'Master' sheet not found in workbook")
    ELSE Return(MasterLoop(w.sheets["Master"], FirstRow, <<>>))

(***************************************************************************)
(* Workbooks explored.                                                     *)
(***************************************************************************)
\* the sheets present among the four the parser reads
Sheets(patient, master, pfr, apc) ==
    LET all == [n \in {"Patient Info", "Master", "PFR", "APC"} |->
                   CASE n = "Patient Info" -> patient
                     [] n = "Master" -> master
                     [] n = "PFR" -> pfr
                     [] n = "APC" -> apc]
    IN  [n \in {m \in DOMAIN all : all[m] # Absent} |-> all[n]]

\* column E of a 'Patient Info' sheet
PatientSheet(name, life, age, geo) ==
    [E |-> [r \in 4..14 |->
               CASE r = 4 -> Datetime
                 [] r = 5 -> name
                 [] r = 6 -> Datetime
                 [] r = 9 -> life
                 [] r = 10 -> age
                 [] r = 11 -> geo
                 [] r = 12 -> Str("Austin, TX")
                 [] OTHER -> None]]

NameCells == {None, Str(""), Str("Pat")}

AgeCells ==
    {None, Datetime, Num(Zero), Num(Whole(45)), Str("45"), Str(" 7 "), Str(""), Str("n/a")}

LifeCells ==
    {None, Datetime, Num(Zero), Num(Whole(30)), Num(Rat(247, 10)), Num(Rat(-5, 2)),
     Str("24.7"), Str(""), Str("unknown"), Str("inf"), Str("nan")}

(***************************************************************************)
(* SpecPatient: one call of parse_patient_info.                            *)
(***************************************************************************)
InitPatient ==
    /\ pc = "parse_patient_info"
    /\ \E name \in NameCells, life \in LifeCells, age \in AgeCells :
          wb = [readable |-> TRUE,
                sheets |-> Sheets(PatientSheet(name, life, age, None), Absent, Absent, Absent)]
    /\ request = EmptyDict
    /\ row = 0
    /\ items = <<>>
    /\ parse_ret = Pending
    /\ response = Pending
    /\ calls = <<>>
    /\ workbook_file = FALSE
    /\ case = None
    /\ IdleFreq /\ IdleCost /\ IdleLookup /\ IdleTables /\ IdleItem /\ IdleAll

ParsePatientInfo ==
    /\ pc = "parse_patient_info"
    /\ parse_ret' = parse_patient_info(wb)
    /\ pc' = "done"
    /\ UNCHANGED <<request, wb, row, items, response, calls, workbook_file, case,
                   freqVars, costVars, lookupVars, tableVars, itemVars, allVars>>

NextPatient == ParsePatientInfo

SpecPatient == InitPatient /\ [][NextPatient]_vars

\* the number a cell holds: a numeric cell or a text that reads as a finite
\* decimal number
IsNumeric(v) == v.kind = "num" \/ (v.kind = "str" /\ Returned(ToFloat(v.s)))

NumberOf(v) == IF v.kind = "num" THEN v.q ELSE ToFloat(v.s).value

\* floor(x)
Floor(x) == x[1] \div x[2]

\* C19: parse_patient_info sets until_age = age_initiated +
\* floor(life_expectancy) for every pair of available numeric values, and
\* leaves until_age absent, without raising, when either value is missing or
\* cannot be converted to a number.
C19_UntilAge ==
    (pc = "done" /\ Truthy(wb.sheets["Patient Info"].E[5])) =>
        LET age_initiated == wb.sheets["Patient Info"].E[10]
            life == wb.sheets["Patient Info"].E[9]
        IN  /\ Returned(parse_ret)
            /\ IF IsNumeric(age_initiated) /\ IsNumeric(life)
               THEN Get(parse_ret.value, "until_age", None) =
                        Num(RAdd(NumberOf(age_initiated), Whole(Floor(NumberOf(life)))))
               ELSE Get(parse_ret.value, "until_age", None) = None

(***************************************************************************)
(* 'Master' sheets explored: every sheet of at most MaxRows rows over      *)
(* RowKinds, and one sheet longer than the safety limit.                   *)
(***************************************************************************)
MaxRows == 3

RowKinds ==
    {MasterRow(Bool(TRUE), Str("Therapy"), Str("Physical therapy"), None, None,
               Num(Whole(100)), Str("2x/year")),
     MasterRow(Bool(FALSE), Str("Equipment"), Str("Walker"), None, None,
               Num(Whole(80)), Str("every 5 years")),
     MasterRow(Str("true"), None, Str("Ramp"), None, None, Str("1,671.00"), None),
     MasterRow(Str("TRUE"), Str("Equipment"), None, Str("APC"), Str("A"), None,
               Str("every 3 years")),
     MasterRow(None, Str("Therapy"), Str("Evaluation"), None, None, Num(Whole(50)),
               Str("one time")),
     MasterRow(Bool(TRUE), None, None, None, None, Num(Whole(10)), Str("yearly")),
     MasterRow(Str("yes"), Str("Therapy"), Str("Massage"), None, None, Num(Whole(100)),
               Str("yearly")),
     MasterRow(Num(One), Str("Therapy"), Str("Review"), None, None, Num(Whole(100)),
               Str("yearly")),
     MasterRow(Str(" TRUE"), Str("Home"), Str("Cleaning"), None, None, Num(Whole(20)),
               Str("monthly"))}

\* a sheet filled beyond the safety limit: rows 6 to 1005, of which rows 255,
\* 1000 and 1001 are checked
LongSheet ==
    [rows |-> <<>>, filled |-> RowLimit,
     marked |-> {250, RowLimit - FirstRow + 1, RowLimit - FirstRow + 2}]

MasterSheets ==
    {[rows |-> q, filled |-> 0, marked |-> {}] : q \in SeqsUpTo(RowKinds, MaxRows)}
    \cup {LongSheet}

(***************************************************************************)
(* SpecMaster: one call of parse_master_items, one row per step.           *)
(***************************************************************************)
InitMaster ==
    /\ pc = "parse_master_items"
    /\ \E master \in MasterSheets \cup {Absent} :
          wb = [readable |-> TRUE, sheets |-> Sheets(Absent, master, Absent, Absent)]
    /\ request = EmptyDict
    /\ row = 0
    /\ items = <<>>
    /\ parse_ret = Pending
    /\ response = Pending
    /\ calls = <<>>
    /\ workbook_file = FALSE
    /\ case = None
    /\ IdleFreq /\ IdleCost /\ IdleLookup /\ IdleTables /\ IdleItem /\ IdleAll

notMasterVars == <<request, wb, response, calls, workbook_file, case, freqVars, costVars,
                   lookupVars, tableVars, itemVars, allVars>>

\* lines 126-133: look for the sheet, start at row 6
MasterOpen ==
    /\ pc = "parse_master_items"
    /\ IF "Master" \notin DOMAIN wb.sheets
       THEN /\ parse_ret' = RaiseMsg("WorkbookParseError",
                                     "'Master' sheet not found in workbook")
            /\ pc' = "done"
            /\ UNCHANGED <<row, items>>
       ELSE /\ items' = <<>>
            /\ row' = FirstRow
            /\ pc' = "while"
            /\ UNCHANGED parse_ret
    /\ UNCHANGED notMasterVars

\* lines 134-163: one iteration of the while loop, or the return
MasterStep ==
    /\ pc = "while"
    /\ \E body \in {MasterBody(wb.sheets["Master"], row, items)} :
          /\ items' = body.items
          /\ row' = body.row
          /\ IF body.break
             THEN parse_ret' = Return(body.items) /\ pc' = "done"
             ELSE UNCHANGED <<parse_ret, pc>>
    /\ UNCHANGED notMasterVars

NextMaster == MasterOpen \/ MasterStep

SpecMaster == InitMaster /\ [][NextMaster]_vars /\ WF_vars(NextMaster)

\* a check value that selects its row: boolean True or "TRUE" in any case
IsSelected(v) == v = Bool(TRUE) \/ (v.kind = "str" /\ Upper(v.s) = "TRUE")

\* the number of rows of a sheet before its first row with columns B and C
\* both empty, and before the row after row 1000
ScannedRows(ws) ==
    LET empty == {k \in 1..SheetLen(ws) : RowAt(ws, k).B = None /\ RowAt(ws, k).C = None}
        upto == IF empty = {} THEN SheetLen(ws) ELSE Leftmost(empty) - 1
    IN  IF upto > RowLimit - FirstRow + 1 THEN RowLimit - FirstRow + 1 ELSE upto

\* the indices of the selected rows among the scanned ones, in sheet order
SelectedRows(ws) ==
    SelectSeq([k \in 1..ScannedRows(ws) |-> k], LAMBDA k : IsSelected(RowAt(ws, k).A))

\* the cell as it appears in an item: an empty cell reads ''
Shown(v) == IF v = None THEN Str("") ELSE v

\* C17: parse_master_items returns, in sheet order, exactly the rows whose
\* check value is boolean True or a string equal to "TRUE" ignoring case,
\* among the rows from row 6 up to the first row with columns B and C both
\* empty, or row 1000 at the latest; every other row is discarded and the
\* scan always terminates.
C17_SelectedRowsInOrder ==
    /\ [](pc = "done" /\ Returned(parse_ret) =>
            LET ws == wb.sheets["Master"]
                sel == SelectedRows(ws)
            IN  /\ Len(parse_ret.value) = Len(sel)
                /\ \A j \in 1..Len(sel) :
                      /\ parse_ret.value[j].category = Shown(RowAt(ws, sel[j]).B)
                      /\ parse_ret.value[j].item = Shown(RowAt(ws, sel[j]).C)
                      /\ parse_ret.value[j].code = Shown(RowAt(ws, sel[j]).G)
                      /\ parse_ret.value[j].cost = RowAt(ws, sel[j]).H
                      /\ parse_ret.value[j].frequency = Shown(RowAt(ws, sel[j]).I))
    /\ <>(pc = "done")

\* the scan of the long sheet stopped by the safety limit: rows 255 and 1000
\* returned, row 1001 not reached
C17_Witness ==
    /\ pc = "done"
    /\ Returned(parse_ret)
    /\ wb.sheets["Master"].filled = RowLimit
    /\ row = RowLimit + 1
    /\ Len(parse_ret.value) = 2
    /\ parse_ret.value[1].item = Str("255")
    /\ parse_ret.value[2].item = Str("1000")

(***************************************************************************)
(* workbook_parser.py: the price sheets and parse_workbook.                *)
(***************************************************************************)
\* the for loop of parse_pfr_sheet and of parse_apc_sheet (the two loops are
\* the same text) over the rows from row 2 on, from the k-th on
RECURSIVE PriceLoop(_, _, _)
PriceLoop(rows, k, lookup) ==
    IF k > Len(rows) THEN lookup
    ELSE LET cpt == rows[k].A
             price == rows[k].B
         IN  IF Truthy(cpt) /\ Truthy(price) /\ Returned(PyFloat(price))
             THEN CHOOSE ret \in {PriceLoop(rows, k + 1, put) :
                                     put \in {PutKey(lookup, Strip(PyStr(cpt)),
                                                     PyFloat(price).value)}} : TRUE
             ELSE PriceLoop(rows, k + 1, lookup)

parse_pfr_sheet(w) ==
    IF "PFR" \notin DOMAIN w.sheets THEN EmptyDict
    ELSE PriceLoop(w.sheets["PFR"].rows, 1, EmptyDict)

parse_apc_sheet(w) ==
    IF "APC" \notin DOMAIN w.sheets THEN EmptyDict
    ELSE PriceLoop(w.sheets["APC"].rows, 1, EmptyDict)

\* lines 36-46 with the outcomes of parse_patient_info and parse_master_items
ParsedWorkbook(file, patient, master) ==
    IF Raised(patient) THEN patient
    ELSE IF Raised(master) THEN master
    ELSE IF master.value = <<>>
    THEN RaiseMsg("NoItemsSelectedError",
                  "No items selected in workbook (Column A 'Check' = True)")
    ELSE Return([patient_info |-> patient.value,
                 items |-> master.value,
                 pfr_lookup |-> parse_pfr_sheet(file),
                 apc_lookup |-> parse_apc_sheet(file)])

\* file is the uploaded file as load_workbook finds it: readable or not, and
\* the sheets it holds
parse_workbook(file) ==
    IF ~file.readable
    THEN RaiseMsg("WorkbookParseError", "Could not open workbook: File is not a zip file")
    ELSE CHOOSE ret \in {ParsedWorkbook(file, patient, master) :
                            patient \in {parse_patient_info(file)},
                            master \in {parse_master_items(file)}} : TRUE

(***************************************************************************)
(* cost_calculator.py: calculate_all_costs as one call.                    *)
(***************************************************************************)
\* the for loop over the items from the k-th on, then the grand totals
RECURSIVE CostLoop(_, _, _, _, _)
CostLoop(data, life, k, calculated, totals) ==
    IF k > Len(data.items) THEN Return(GrandTotals(calculated, totals, life))
    ELSE CHOOSE ret \in
             {IF Raised(c) THEN c
              ELSE CHOOSE r \in
                       {CostLoop(data, life, k + 1, Append(calculated, calculated_item),
                                 category_total) :
                           calculated_item \in {MergeCosts(data.items[k], c.value)},
                           category_total \in {Aggregate(totals, data.items[k], c.value,
                                                         MergeCosts(data.items[k],
                                                                    c.value))}} : TRUE :
                 c \in {calculate_item_costs(data.items[k], data.patient_info,
                                             data.pfr_lookup, data.apc_lookup)}} : TRUE

calculate_all_costs(data) ==
    LET le == FloatOr(data.patient_info, "life_expectancy", Zero)
    IN  IF Raised(le) THEN le ELSE CostLoop(data, le.value, 1, <<>>, <<>>)

(***************************************************************************)
(* api.py: generate_lcp.  A request is [files]: the uploaded files by form *)
(* field, each [filename, content], the content being the workbook that    *)
(* load_workbook finds once the file is saved.  A response is [status,     *)
(* error] for a JSON error body and [status, mimetype] for a sent file.    *)
(***************************************************************************)
ALLOWED_EXTENSIONS == {"xlsx", "xlsm"}

\* filename.rsplit('.', 1)[1]
Extension(filename) == Split(filename, ".")[Len(Split(filename, "."))]

allowed_file(filename) ==
    Contains(filename, ".") /\ Lower(Extension(filename)) \in ALLOWED_EXTENSIONS

\* jsonify({'error': msg}), status
JsonError(msg, status) == [status |-> status, error |-> msg]

\* str(e): the message the exception was raised with; for an exception of
\* the interpreter the name of its kind stands for its message
ErrorText(r) == IF "message" \in DOMAIN r THEN r.message ELSE r.raised

\* lines 115-123: the except clauses of generate_lcp on the outcome r
Handler(r) ==
    IF r.raised \in {"NoItemsSelectedError", "MissingPatientInfoError", "WorkbookParseError"}
    THEN JsonError(ErrorText(r), 400)
    ELSE JsonError("Error processing workbook: " \o ErrorText(r), 500)

\* the rows of the 'Master' sheets uploaded
UploadRowKinds ==
    {MasterRow(Bool(TRUE), Str("Therapy"), Str("Physical therapy"), None, None,
               Num(Whole(100)), Str("2x/year")),
     MasterRow(Bool(FALSE), Str("Equipment"), Str("Walker"), None, None,
               Num(Whole(80)), Str("every 5 years")),
     MasterRow(Str("TRUE"), Str("Equipment"), Str("Wheelchair"), Str("APC"), Str("A; 99213"),
               None, Str("every 3 years"))}

\* a price sheet: a numeric price, a code with spaces around it and a price
\* as text, a code held as a number, a price that is no number, an empty code
PriceSheet ==
    [rows |-> <<[A |-> Str("A"), B |-> Num(Whole(100))],
                [A |-> Str(" B "), B |-> Str("40.5")],
                [A |-> Num(Whole(99213)), B |-> Num(Whole(75))],
                [A |-> Str("Z"), B |-> Str("n/a")],
                [A |-> None, B |-> Num(One)]>>]

\* an upload that load_workbook cannot open
Unreadable == [readable |-> FALSE, sheets |-> Sheets(Absent, Absent, Absent, Absent)]

UploadPatients ==
    {Absent} \cup {PatientSheet(name, life, Num(Whole(45)), None) :
                      name \in NameCells \cup {Num(Whole(7))},
                      life \in {Num(Whole(10)), Str("unknown"), Str("inf")}}

UploadMasters ==
    {Absent} \cup {[rows |-> q, filled |-> 0, marked |-> {}] :
                      q \in SeqsUpTo(UploadRowKinds, MaxRows)}

FileNames == {"plan.xlsx", "Plan.v2.XLSM"}

OtherNames == {"", "plan", "plan.csv", "xlsx"}

\* request.files with the form field 'file'
Uploaded(n, w) == [files |-> [file |-> [filename |-> n, content |-> w]]]

(***************************************************************************)
(* SpecGenerate: one request to generate_lcp.                              *)
(***************************************************************************)
InitGenerate ==
    /\ pc = "generate_lcp"
    /\ \/ request = [files |-> EmptyDict]
       \/ \E n \in FileNames \cup OtherNames : request = Uploaded(n, Unreadable)
       \/ \E n \in FileNames, patient \in UploadPatients, master \in UploadMasters,
             prices \in {Absent, PriceSheet} :
             request = Uploaded(n, [readable |-> TRUE,
                                    sheets |-> Sheets(patient, master, prices, prices)])
    /\ wb = EmptyDict
    /\ row = 0
    /\ items = <<>>
    /\ parse_ret = Pending
    /\ response = Pending
    /\ calls = <<>>
    /\ workbook_file = FALSE
    /\ case = None
    /\ IdleFreq /\ IdleCost /\ IdleLookup /\ IdleTables /\ IdleItem /\ IdleAll

notGenerateVars == <<row, items, freqVars, costVars, lookupVars, tableVars, itemVars,
                     life_expectancy, item_index, calculated_items, category_totals>>

\* send_file(doc_path, ...)
SentFile ==
    [status |-> 200,
     mimetype |-> "application/vnd.openxmlformats-officedocument.wordprocessingml.document"]

\* lines 50-65: check the upload and save it to the temporary path
Upload ==
    /\ pc = "generate_lcp"
    /\ IF "file" \notin DOMAIN request.files
       THEN /\ response' = JsonError("No file uploaded", 400)
            /\ pc' = "done"
            /\ UNCHANGED <<wb, workbook_file>>
       ELSE IF request.files["file"].filename = ""
       THEN /\ response' = JsonError("No file selected", 400)
            /\ pc' = "done"
            /\ UNCHANGED <<wb, workbook_file>>
       ELSE IF ~allowed_file(request.files["file"].filename)
       THEN /\ response' = JsonError("Invalid file type. Please upload .xlsx or .xlsm file",
                                     400)
            /\ pc' = "done"
            /\ UNCHANGED <<wb, workbook_file>>
       ELSE /\ wb' = request.files["file"].content
            /\ workbook_file' = TRUE
            /\ pc' = "parse_workbook"
            /\ UNCHANGED response
    /\ UNCHANGED <<request, parse_ret, workbook_data, cost_data, calls, case,
                   notGenerateVars>>

\* line 69, and lines 115-123 when it raises
ParseWorkbook ==
    /\ pc = "parse_workbook"
    /\ calls' = Append(calls, "parse_workbook")
    /\ \E r \in {parse_workbook(wb)} :
          /\ parse_ret' = r
          /\ IF Raised(r)
             THEN /\ response' = Handler(r)
                  /\ pc' = "finally"
                  /\ UNCHANGED workbook_data
             ELSE /\ workbook_data' = r.value
                  /\ pc' = "calculate_all_costs"
                  /\ UNCHANGED response
    /\ UNCHANGED <<request, wb, cost_data, workbook_file, case, notGenerateVars>>

\* line 72, and lines 121-123 when it raises
CalculateAllCosts ==
    /\ pc = "calculate_all_costs"
    /\ calls' = Append(calls, "calculate_all_costs")
    /\ \E r \in {calculate_all_costs(workbook_data)} :
          /\ cost_data' = r
          /\ IF Raised(r)
             THEN response' = Handler(r) /\ pc' = "finally"
             ELSE pc' = "generate_lcp_document" /\ UNCHANGED response
    /\ UNCHANGED <<request, wb, parse_ret, workbook_data, workbook_file, case,
                   notGenerateVars>>

\* lines 74-84: the file name from the patient name (a name that is no text
\* cannot be iterated), then the document.  The document generator is
\* outside the code modelled: it writes the document or raises.
GenerateDocument ==
    /\ pc = "generate_lcp_document"
    /\ IF Get(workbook_data.patient_info, "patient_name", Str("Unknown")).kind # "str"
       THEN /\ response' = Handler(Raise("TypeError"))
            /\ pc' = "finally"
            /\ UNCHANGED calls
       ELSE /\ calls' = Append(calls, "generate_lcp_document")
            /\ \E generated \in BOOLEAN :
                  IF generated
                  THEN pc' = "save_case" /\ UNCHANGED response
                  ELSE response' = Handler(Raise("OSError")) /\ pc' = "finally"
    /\ UNCHANGED <<request, wb, parse_ret, workbook_data, cost_data, workbook_file, case,
                   notGenerateVars>>

\* SaveCase letting a failure of save_case reach the except clauses of the
\* handler
SaveCase_uncaught ==
    /\ pc = "save_case"
    /\ calls' = Append(calls, "save_case")
    /\ \E outcome \in {"raise", "none", "case"} :
          /\ case' = IF outcome = "case" THEN [id |-> "case-1"] ELSE None
          /\ IF outcome = "raise"
             THEN response' = Handler(Raise("ValueError")) /\ pc' = "finally"
             ELSE /\ pc' = IF outcome = "case" THEN "save_case_items" ELSE "send_file"
                  /\ UNCHANGED response
    /\ UNCHANGED <<request, wb, parse_ret, workbook_data, cost_data, workbook_file,
                   notGenerateVars>>

\* lines 86-90 and 103-105: save_case raises (as it does when no database is
\* configured), returns no record, or returns the case; a failure is logged
\* and the handler goes on to send the file
SaveCase ==
    /\ pc = "save_case"
    /\ calls' = Append(calls, "save_case")
    /\ \E outcome \in {"raise", "none", "case"} :
          /\ case' = IF outcome = "case" THEN [id |-> "case-1"] ELSE None
          /\ pc' = IF outcome = "case" THEN "save_case_items" ELSE "send_file"
    /\ UNCHANGED <<request, wb, parse_ret, workbook_data, cost_data, response,
                   workbook_file, notGenerateVars>>

\* lines 91-92 and 103-105
SaveCaseItems ==
    /\ pc = "save_case_items"
    /\ calls' = Append(calls, "save_case_items")
    /\ \E saved \in BOOLEAN : pc' = IF saved THEN "upload_file_to_storage" ELSE "send_file"
    /\ UNCHANGED <<request, wb, parse_ret, workbook_data, cost_data, response,
                   workbook_file, case, notGenerateVars>>

\* lines 94-96 and 103-105
UploadFileToStorage ==
    /\ pc = "upload_file_to_storage"
    /\ calls' = Append(calls, "upload_file_to_storage")
    /\ \E uploaded \in BOOLEAN :
          pc' = IF uploaded THEN "save_document_metadata" ELSE "send_file"
    /\ UNCHANGED <<request, wb, parse_ret, workbook_data, cost_data, response,
                   workbook_file, case, notGenerateVars>>

\* lines 97-105: whether it raises or not, the handler goes on
SaveDocumentMetadata ==
    /\ pc = "save_document_metadata"
    /\ calls' = Append(calls, "save_document_metadata")
    /\ pc' = "send_file"
    /\ UNCHANGED <<request, wb, parse_ret, workbook_data, cost_data, response,
                   workbook_file, case, notGenerateVars>>

\* lines 107-113: the document that was written is sent
SendFile ==
    /\ pc = "send_file"
    /\ calls' = Append(calls, "send_file")
    /\ response' = SentFile
    /\ pc' = "finally"
    /\ UNCHANGED <<request, wb, parse_ret, workbook_data, cost_data, workbook_file, case,
                   notGenerateVars>>

\* lines 124-130: the finally clause removes the uploaded file if it exists;
\* the file system is taken to remove a file it is asked to remove
Finally ==
    /\ pc = "finally"
    /\ IF workbook_file
       THEN calls' = Append(calls, "os.remove") /\ workbook_file' = FALSE
       ELSE UNCHANGED <<calls, workbook_file>>
    /\ pc' = "done"
    /\ UNCHANGED <<request, wb, parse_ret, workbook_data, cost_data, response, case,
                   notGenerateVars>>

NextGenerate ==
    \/ Upload
    \/ ParseWorkbook
    \/ CalculateAllCosts
    \/ GenerateDocument
    \/ SaveCase
    \/ SaveCaseItems
    \/ UploadFileToStorage
    \/ SaveDocumentMetadata
    \/ SendFile
    \/ Finally

SpecGenerate == InitGenerate /\ [][NextGenerate]_vars

\* the error kinds of the structural failures of an uploaded workbook
Failures(w) ==
    IF ~w.readable THEN {"WorkbookParseError"}
    ELSE (IF "Patient Info" \notin DOMAIN w.sheets
             \/ ("Patient Info" \in DOMAIN w.sheets
                    /\ ~Truthy(w.sheets["Patient Info"].E[5]))
          THEN {"MissingPatientInfoError"} ELSE {})
         \cup (IF "Master" \notin DOMAIN w.sheets THEN {"WorkbookParseError"} ELSE {})
         \cup (IF "Master" \in DOMAIN w.sheets /\ SelectedRows(w.sheets["Master"]) = <<>>
               THEN {"NoItemsSelectedError"} ELSE {})

\* C18: parse_workbook returns normally only when the patient name is
\* present and at least one item is selected; on a structural failure it
\* raises the error kind of a failure the workbook has
\* (MissingPatientInfoError for a missing 'Patient Info' sheet or name,
\* WorkbookParseError for an unreadable file or a missing 'Master' sheet,
\* NoItemsSelectedError for no selected item), and generate_lcp answers each
\* of these with an error response that carries the message of the error.
C18_StructuralFailuresSurfaced ==
    parse_ret # Pending =>
        /\ Returned(parse_ret) =>
              /\ wb.readable
              /\ "Patient Info" \in DOMAIN wb.sheets
              /\ Truthy(wb.sheets["Patient Info"].E[5])
              /\ "Master" \in DOMAIN wb.sheets
              /\ SelectedRows(wb.sheets["Master"]) # <<>>
        /\ Failures(wb) # {} => Raised(parse_ret) /\ parse_ret.raised \in Failures(wb)
        /\ Raised(parse_ret) /\ parse_ret.raised \in {"MissingPatientInfoError",
                                                      "WorkbookParseError",
                                                      "NoItemsSelectedError"} =>
              /\ pc \in {"finally", "done"}
              /\ response = [status |-> 400, error |-> parse_ret.message]
              /\ response.error # ""

(***************************************************************************)
(* calculate_item_costs and the geographic multiplier (SpecItem).          *)
(***************************************************************************)
\* the item is priced from the tables as a facility-type item: no raw cost,
\* and a code type containing "APC" or "FACILITY"
FacilityPriced(it) ==
    /\ ~Truthy(Get(it, "cost", None))
    /\ Get(it, "code_type", Str("")).kind = "str"
    /\ \/ Contains(Upper(Get(it, "code_type", Str("")).s), "APC")
       \/ Contains(Upper(Get(it, "code_type", Str("")).s), "FACILITY")

\* the price of the item's codes under the multiplier geo
FacilityPrice(it, pfr, apc, geo) ==
    SumPrices(Segments(Get(it, "code", Str("")).s), Get(it, "code_type", Str("")), pfr, apc,
              geo)

\* the multiplier g stands for: 1.0 for a missing one or None, the number
\* itself, the number a text reads as
MultiplierOf(g) ==
    IF g \in {Absent, None} THEN One
    ELSE IF g.kind = "num" THEN g.q
    ELSE ToFloat(g.s).value

\* g is missing or None, or a positive number given as a number or as text
MultiplierGiven(g) ==
    \/ g \in {Absent, None}
    \/ g.kind = "num" /\ g.q[1] > 0
    \/ g.kind = "str" /\ Returned(ToFloat(g.s)) /\ ToFloat(g.s).value[1] > 0

C22_EmptyPlanAllZero ==
    (pc = "done" /\ workbook_data.items = <<>>) =>
        /\ Returned(cost_data)
        /\ cost_data.value.items = <<>>
        /\ cost_data.value.category_totals = <<>>
        /\ cost_data.value.totals.total_annual = Zero
        /\ cost_data.value.totals.total_one_time = Zero
        /\ cost_data.value.totals.lifetime_annual = Zero
        /\ cost_data.value.totals.grand_total = Zero

(***************************************************************************)
(* The precedence of the rules of parse_frequency (SpecFreq).              *)
(***************************************************************************)
\* the entries of the reference table whose key the text t contains
KeysIn(t) == {k \in 1..Len(FREQUENCY_MULTIPLIERS) : Contains(t, FREQUENCY_MULTIPLIERS[k].pattern)}

\* the first rule that the text t matches, visits, times and every being
\* the matches of the three patterns in t
RuleOf(t, visits, times, every) ==
    IF Contains(t, "one time") \/ Contains(t, "one-time") THEN 1
    ELSE IF visits.ok THEN 2
    ELSE IF times.ok THEN 3
    ELSE IF every.ok THEN 4
    ELSE IF KeysIn(t) # {} THEN 5
    ELSE 6

\* the outcome ret is the one that the rule decides; a rule that divides by
\* a period decides the pair of a call that returns
DecidedBy(rule, t, visits, times, every, ret) ==
    CASE rule = 1 -> GivesPair(ret, FALSE, 1, 1)
      [] rule = 2 ->
            Returned(ret) =>
                GivesPair(ret, TRUE, ToInt(visits.g1),
                          IF visits.g2 # "" THEN ToInt(visits.g2) ELSE 1)
      [] rule = 3 -> GivesPair(ret, TRUE, ToInt(times.g1), 1)
      [] rule = 4 ->
            Returned(ret) =>
                IF every.g2 # ""
                THEN GivesPair(ret, TRUE, 2, ToInt(every.g1) + ToInt(every.g2))
                ELSE GivesPair(ret, TRUE, 1, ToInt(every.g1))
      [] rule = 5 ->
            IF IsZero(FREQUENCY_MULTIPLIERS[Leftmost(KeysIn(t))].mult)
            THEN GivesPair(ret, FALSE, 1, 1)
            ELSE GivesPair(ret, TRUE, FREQUENCY_MULTIPLIERS[Leftmost(KeysIn(t))].mult[1],
                           FREQUENCY_MULTIPLIERS[Leftmost(KeysIn(t))].mult[2])
      [] rule = 6 -> GivesPair(ret, TRUE, 1, 1)

FirstRuleDecides(t, visits, times, every, ret) ==
    DecidedBy(RuleOf(t, visits, times, every), t, visits, times, every, ret)

\* C23: parse_frequency applies its rules in a fixed precedence, the first
\* matching rule deciding the result: (1) "one time" or "one-time" contained,
\* (2) the visits pattern, (3) the times-per-year pattern, (4) the
\* every-N[-M]-years pattern, (5) the first key of the reference table, in
\* table order, that the text contains, (6) the default (True, 1.0).  A text
\* containing "one time" or "one-time" gives (False, 1.0) also when it
\* matches a later rule, a non-empty text matching no rule gives (True, 1.0),
\* and the text is matched in lower case without the white space around it.
C23_FirstMatchingRuleDecides ==
    (pc = "done" /\ freq_str.kind = "str" /\ freq_str.s # "") =>
        FirstRuleDecides(Strip(Lower(freq_str.s)),
                         VisitsSearch(Strip(Lower(freq_str.s))),
                         TimesSearch(Strip(Lower(freq_str.s))),
                         EverySearch(Strip(Lower(freq_str.s))),
                         freq_ret)

\* a text that contains "one time" after a phrase of the times-per-year
\* pattern: the one-time rule decides
C23_Witness ==
    /\ pc = "done"
    /\ freq_str = Str("3x/year, one time")
    /\ TimesSearch("3x/year, one time").ok
    /\ GivesPair(freq_ret, FALSE, 1, 1)

(***************************************************************************)
(* The cost fields of calculate_item_costs (SpecItem).                     *)
(***************************************************************************)
\* the cost fields c follow from the unit cost and the parsed frequency freq
CostsFollow(freq, c) ==
    IF freq.is_annual
    THEN /\ c.annual_cost = Round2(RMul(c.unit_cost, freq.multiplier))
         /\ c.one_time_cost = Zero
    ELSE /\ c.annual_cost = Zero
         /\ IsZero(freq.multiplier) => c.one_time_cost = c.unit_cost
         /\ ~IsZero(freq.multiplier) =>
               c.one_time_cost = Round2(RMul(c.unit_cost, freq.multiplier))

\* parse_frequency returned ret, and the cost fields c follow from it
FollowParsed(ret, c) == Returned(ret) /\ CostsFollow(ret.value, c)

\* C24: with (is_annual, multiplier) = parse_frequency(frequency),
\* calculate_item_costs gives annual_cost = round(unit_cost x multiplier, 2)
\* and one_time_cost = 0 when is_annual; otherwise annual_cost = 0 and
\* one_time_cost = round(unit_cost x multiplier, 2) for a non-zero
\* multiplier, and one_time_cost = unit_cost itself, unrounded, for a zero
\* multiplier.
C24_CostFieldsFromFrequency ==
    ItemDone => FollowParsed(parse_frequency(Get(item, "frequency", Str(""))), costs.value)

\* a one-time item with a unit cost below half a cent: the one-time cost is
\* the unit cost times 1.0 rounded to cents, 0.00
C24_Witness ==
    /\ ItemDone
    /\ Get(item, "frequency", None) = Str("one time")
    /\ costs.value.unit_cost = Rat(1, 250)
    /\ costs.value.annual_cost = Zero
    /\ costs.value.one_time_cost = Zero

(***************************************************************************)
(* The order of the steps of generate_lcp (SpecGenerate).                  *)
(***************************************************************************)
\* the services of the handler in the order of the claim
Steps ==
    <<"parse_workbook", "calculate_all_costs", "generate_lcp_document", "save_case",
      "save_case_items", "upload_file_to_storage", "save_document_metadata">>

\* the calls made so far to the services of Steps
StepsCalled == SelectSeq(calls, LAMBDA c : c \in {Steps[k] : k \in 1..Len(Steps)})

====
